---------------------------- MODULE Spec2Model ----------------------------
(***************************************************************************)
(* A model of libvrf-js: the type registry, the RSA-VRF engine (FDH and    *)
(* PSS-no-salt), the simplified EC-VRF engine and the VRF dispatcher.      *)
(*                                                                         *)
(* Scale.  TLC computes on 32-bit integers, so the arithmetic is kept and  *)
(* the sizes are shrunk.  A byte of the model has 2 bits (values 0..3)     *)
(* instead of 8, and every length of the registry is shrunk with it:       *)
(*                                                                         *)
(*    source                      model                                    *)
(*    byte 0x00..0xFF             0..3                                     *)
(*    RSA 2048 / 3072 / 4096 bit  10 / 12 / 14 bit  (5 / 6 / 7 bytes)      *)
(*    sha256 / sha384 / sha512    3 / 4 / 5 bytes of digest                *)
(*    EC qLen 32, ptLen 33,       qLen 3, ptLen 4,                         *)
(*       cLen 16, fLen 80            cLen 2, fLen 8                        *)
(*    PSS trailer 0xbc            2                                        *)
(*                                                                         *)
(* The relations the code relies on are kept: a modulus of `bits` bits     *)
(* fills bits/8 bytes exactly, the digest is shorter than the modulus by   *)
(* at least two bytes, ptLen = hLen + 1, fLen is one less than             *)
(* ptLen + cLen + qLen (80 against 33 + 16 + 32), and fLen is not a        *)
(* multiple of hLen (the last block of the stretched digest is cut).       *)
(* Digests, RSA key generation / DER coding and the ECDH capability are    *)
(* libraries the code calls; they are modelled by small total functions    *)
(* that are deterministic and not the identity.  The hex conversions of    *)
(* utils.ts, and its integer conversions that go through them, are alone   *)
(* modelled at the source's scale.                                         *)
(***************************************************************************)
EXTENDS Integers, Sequences, FiniteSets, TLC

(***************************************************************************)
(* The state: the hosting environment and the objects a caller holds.      *)
(***************************************************************************)
VARIABLES
    browser,    \* what isBrowser() returns; fixed for a run
    sk,         \* the SecretKey object held, or Absent
    pk,         \* the PublicKey object held, or Absent
    proof,      \* the Proof object held, or Absent
    res,        \* the last public operation and what it returned
    earlier,    \* an observer's note of an earlier getVRFProof outcome
    twin,       \* the object the last clone() returned, or Absent
    pending     \* the initializeAsync calls that are suspended at an await

vars == << browser, sk, pk, proof, res, earlier, twin, pending >>

(***************************************************************************)
(* Bounds of the model.                                                    *)
(***************************************************************************)
\* The number of different inputs to prove / verify a run draws from.
MaxInputs == 3

(***************************************************************************)
(* Bytes and byte strings (Uint8Array).                                    *)
(***************************************************************************)
\* The number of values of a byte (256 in the source, 0xFF + 1).
ByteMod == 4
Bytes == 0 .. (ByteMod - 1)

RECURSIVE Pow(_, _)
Pow(b, k) == IF k = 0 THEN 1 ELSE b * Pow(b, k - 1)

Min(a, b) == IF a < b THEN a ELSE b

\* Uint8Array.prototype.slice(from, to), 0-based, `to` excluded and clamped.
Slice(s, from, to) ==
    LET hi == Min(to, Len(s))
    IN  IF from >= hi THEN << >> ELSE [i \in 1 .. (hi - from) |-> s[from + i]]

\* new Uint8Array(len): len zero bytes.
Zeros(len) == [i \in 1 .. len |-> 0]

\* a & b, a ^ b and a >> k on the non-negative numbers the code applies them to.
RECURSIVE BitAnd(_, _)
BitAnd(a, b) ==
    IF a = 0 \/ b = 0 THEN 0
    ELSE 2 * BitAnd(a \div 2, b \div 2) + (IF a % 2 = 1 /\ b % 2 = 1 THEN 1 ELSE 0)

RECURSIVE BitXor(_, _)
BitXor(a, b) ==
    IF a = 0 THEN b
    ELSE IF b = 0 THEN a
    ELSE 2 * BitXor(a \div 2, b \div 2) + (IF a % 2 = b % 2 THEN 0 ELSE 1)

ShiftRight(a, k) == a \div Pow(2, k)

\* src/src/utils.ts concatBytes
concatBytes(a, b) == a \o b

\* src/unnamed/part_005 xorBytes: the length of the shorter argument.
xorBytes(a, b) ==
    [i \in 1 .. Min(Len(a), Len(b)) |-> BitXor(a[i], b[i])]

\* src/unnamed/part_005 bytesEqual
bytesEqual(a, b) ==
    /\ Len(a) = Len(b)
    /\ \A i \in 1 .. Len(a) : a[i] = b[i]

\* BigInt('0x' + hex(bytes)): the big-endian value of a non-empty byte string.
RECURSIVE bufferToBigInt(_)
bufferToBigInt(s) ==
    IF Len(s) = 0 THEN 0
    ELSE bufferToBigInt(SubSeq(s, 1, Len(s) - 1)) * ByteMod + s[Len(s)]

\* src/unnamed/part_005 bigIntToBytes: the low `length` bytes of value,
\* big-endian; what does not fit is dropped without complaint.
bigIntToBytes(value, length) ==
    [i \in 1 .. length |-> (value \div Pow(ByteMod, length - i)) % ByteMod]

\* src/src/utils.ts i2osp with xLen = 4, as the mask generation calls it:
\* the counters reached are far below 256^4, so it never throws here.
i2osp(x, xLen) == bigIntToBytes(x, xLen)

\* src/unnamed/part_005 modPow: square and multiply.
RECURSIVE modPowLoop(_, _, _, _)
modPowLoop(result, base, exp, mod) ==
    IF exp > 0
    THEN modPowLoop(IF exp % 2 = 1 THEN (result * base) % mod ELSE result,
                    (base * base) % mod, exp \div 2, mod)
    ELSE result

modPow(base, exp, mod) == modPowLoop(1, base % mod, exp, mod)

(***************************************************************************)
(* src/src/types.ts: the closed enumeration and the family predicates.     *)
(***************************************************************************)
RSAFDHTypes ==
    { "RSA_FDH_VRF_RSA2048_SHA256", "RSA_FDH_VRF_RSA3072_SHA256",
      "RSA_FDH_VRF_RSA4096_SHA384", "RSA_FDH_VRF_RSA4096_SHA512" }

RSAPSSTypes ==
    { "RSA_PSS_NOSALT_VRF_RSA2048_SHA256", "RSA_PSS_NOSALT_VRF_RSA3072_SHA256",
      "RSA_PSS_NOSALT_VRF_RSA4096_SHA384", "RSA_PSS_NOSALT_VRF_RSA4096_SHA512" }

VRFType ==
    RSAFDHTypes \cup RSAPSSTypes \cup { "EC_VRF_P256_SHA256_TAI", "UNKNOWN" }

isRSAFDHType(type) == type \in RSAFDHTypes

isRSAPSSType(type) == type \in RSAPSSTypes

\* isRSAType with the four PSS types left out
isRSATypeFDHOnly(type) == isRSAFDHType(type)

isRSAType(type) ==
    \/ type = "RSA_FDH_VRF_RSA2048_SHA256"
    \/ type = "RSA_FDH_VRF_RSA3072_SHA256"
    \/ type = "RSA_FDH_VRF_RSA4096_SHA384"
    \/ type = "RSA_FDH_VRF_RSA4096_SHA512"
    \/ type = "RSA_PSS_NOSALT_VRF_RSA2048_SHA256"
    \/ type = "RSA_PSS_NOSALT_VRF_RSA3072_SHA256"
    \/ type = "RSA_PSS_NOSALT_VRF_RSA4096_SHA384"
    \/ type = "RSA_PSS_NOSALT_VRF_RSA4096_SHA512"

isECType(type) == type = "EC_VRF_P256_SHA256_TAI"

(***************************************************************************)
(* The parameter registry.  NoParams is the null the lookups return.       *)
(***************************************************************************)
NoParams == [family |-> "none"]

\* TextEncoder().encode(suiteString): one short byte string per RSA type,
\* different for different types.
SuiteBytes(k) == << 3, k \div ByteMod, k % ByteMod >>

RSAParams(bits, digest, k) ==
    [family |-> "RSA", bits |-> bits, e |-> 65537, digest |-> digest,
     suiteString |-> SuiteBytes(k)]

\* src/unnamed/part_005 getRSAVRFParams (bits and digests at the model's scale)
getRSAVRFParams(type) ==
    CASE type = "RSA_FDH_VRF_RSA2048_SHA256" -> RSAParams(10, "sha256", 1)
      [] type = "RSA_FDH_VRF_RSA3072_SHA256" -> RSAParams(12, "sha256", 2)
      [] type = "RSA_FDH_VRF_RSA4096_SHA384" -> RSAParams(14, "sha384", 3)
      [] type = "RSA_FDH_VRF_RSA4096_SHA512" -> RSAParams(14, "sha512", 4)
      [] type = "RSA_PSS_NOSALT_VRF_RSA2048_SHA256" -> RSAParams(10, "sha256", 5)
      [] type = "RSA_PSS_NOSALT_VRF_RSA3072_SHA256" -> RSAParams(12, "sha256", 6)
      [] type = "RSA_PSS_NOSALT_VRF_RSA4096_SHA384" -> RSAParams(14, "sha384", 7)
      [] type = "RSA_PSS_NOSALT_VRF_RSA4096_SHA512" -> RSAParams(14, "sha512", 8)
      [] OTHER -> NoParams

\* src/src/ec/params.ts getECVRFParams (lengths at the model's scale)
getECVRFParams(type) ==
    CASE type = "EC_VRF_P256_SHA256_TAI" ->
           [family |-> "EC", digest |-> "sha256", suiteString |-> << 1 >>,
            qLen |-> 3, ptLen |-> 4, cLen |-> 2, fLen |-> 8, hLen |-> 3]
      [] OTHER -> NoParams

(***************************************************************************)
(* The digest capability (crypto.createHash): a total deterministic        *)
(* function from byte strings to digests of the algorithm's length.  The   *)
(* model's digest is a polynomial hash; it has collisions, as any digest   *)
(* of 6 to 10 bits must, and no claim is settled by assuming it has none.  *)
(***************************************************************************)
DigestLen(algorithm) ==
    CASE algorithm = "sha256" -> 3
      [] algorithm = "sha384" -> 4
      [] algorithm = "sha512" -> 5

RECURSIVE DigestFold(_, _, _)
DigestFold(acc, data, m) ==
    IF Len(data) = 0 THEN acc
    ELSE DigestFold((acc * 5 + 3 * Head(data) + Len(data) + 1) % m, Tail(data), m)

\* src/src/utils.ts hash, in Node (in a browser it throws, see HashThrows)
hash(algorithm, data) ==
    LET hLen == DigestLen(algorithm)
        m == Pow(ByteMod, hLen)
    IN  bigIntToBytes(DigestFold((7 * hLen + 1) % m, data, m), hLen)

(***************************************************************************)
(* The RSA key capability (node-rsa).  A key is its components; d = 0 in   *)
(* a key imported from public bytes.  NoKey is `undefined`.                *)
(***************************************************************************)
NoKey == [n |-> 0, e |-> 0, d |-> 0]

\* new NodeRSA({b: bits}): the key pairs generation can give for each size,
\* n = p * q of exactly `bits` bits and d = e^-1 mod (p-1)(q-1).
GeneratedKeys(bits) ==
    CASE bits = 10 -> { [n |-> 551, e |-> 65537, d |-> 89],
                        [n |-> 899, e |-> 65537, d |-> 593] }
      [] bits = 12 -> { [n |-> 3233, e |-> 65537, d |-> 2753] }
      [] bits = 14 -> { [n |-> 9797, e |-> 65537, d |-> 9473] }
      [] OTHER -> { }

\* The number of bits of a byte (8 in the source): bits / 8 is the modulus length.
BitsPerByte == 2

\* The PSS trailer byte (0xbc in the source).
TrailerByte == 2

(***************************************************************************)
(* src/unnamed/part_005, class RSASecretKey.                               *)
(***************************************************************************)
RECURSIVE RSASecretKey_mgf1WithSaltLoop(_, _, _, _, _, _)
RSASecretKey_mgf1WithSaltLoop(result, counter, seed, maskLen, params, mgf1Salt) ==
    IF Len(result) < maskLen
    THEN LET counterBytes == i2osp(counter, 4)
             hashInput == concatBytes(concatBytes(seed, mgf1Salt), counterBytes)
             hashOutput == hash(params.digest, hashInput)
             copyLen == Min(Len(hashOutput), maskLen - Len(result))
         IN  RSASecretKey_mgf1WithSaltLoop(result \o Slice(hashOutput, 0, copyLen),
                 counter + 1, seed, maskLen, params, mgf1Salt)
    ELSE result

RSASecretKey_mgf1WithSalt(seed, maskLen, params, mgf1Salt) ==
    RSASecretKey_mgf1WithSaltLoop(<< >>, 0, seed, maskLen, params, mgf1Salt)

RSASecretKey_hashToFullDomain(input, params, mgf1Salt) ==
    LET combined == concatBytes(params.suiteString, input)
        hashed == hash(params.digest, combined)
    IN  RSASecretKey_mgf1WithSalt(hashed, params.bits \div BitsPerByte, params, mgf1Salt)

RECURSIVE mgf1Loop(_, _, _, _, _)
mgf1Loop(result, counter, seed, maskLen, params) ==
    IF Len(result) < maskLen
    THEN LET counterBytes == i2osp(counter, 4)
             hashInput == concatBytes(seed, counterBytes)
             hashOutput == hash(params.digest, hashInput)
             copyLen == Min(Len(hashOutput), maskLen - Len(result))
         IN  mgf1Loop(result \o Slice(hashOutput, 0, copyLen),
                      counter + 1, seed, maskLen, params)
    ELSE result

\* mgf1 of RSASecretKey and of RSAPublicKey: the standard MGF1, no salt.
mgf1(seed, maskLen, params) == mgf1Loop(<< >>, 0, seed, maskLen, params)

\* Math.ceil(emBits / 8)
CeilBytes(emBits) == (emBits + BitsPerByte - 1) \div BitsPerByte

\* 0xFF >> (8 * emLen - emBits)
TopMask(emLen, emBits) == ShiftRight(ByteMod - 1, BitsPerByte * emLen - emBits)

pssEncode(mHash, emBits, params) ==
    LET hLen == Len(mHash)
        emLen == CeilBytes(emBits)
        salt == << >>
        mPrime == concatBytes(concatBytes(Zeros(8), mHash), salt)
        H == hash(params.digest, mPrime)
        PS == Zeros(emLen - Len(salt) - hLen - 2)
        DB == concatBytes(concatBytes(PS, << 1 >>), salt)
        dbMask == mgf1(H, emLen - hLen - 1, params)
        xored == xorBytes(DB, dbMask)
        mask == TopMask(emLen, emBits)
        maskedDB == [xored EXCEPT ![1] = BitAnd(xored[1], mask)]
    IN  concatBytes(concatBytes(maskedDB, H), << TrailerByte >>)

\* A defective rsaFDHProve: the message depends on what the last call left
\* behind (a nonce), as a randomized signature would.
rsaFDHProveRandomized(rsaKey, mgf1Salt, input, params) ==
    LET hashedInput ==
            RSASecretKey_hashToFullDomain(concatBytes(input, res.value), params, mgf1Salt)
        message == bufferToBigInt(hashedInput)
        signature == modPow(message, rsaKey.d, rsaKey.n)
        modulusLength == params.bits \div BitsPerByte
    IN  bigIntToBytes(signature, modulusLength)

rsaFDHProve(rsaKey, mgf1Salt, input, params) ==
    LET hashedInput == RSASecretKey_hashToFullDomain(input, params, mgf1Salt)
        message == bufferToBigInt(hashedInput)
        signature == modPow(message, rsaKey.d, rsaKey.n)
        modulusLength == params.bits \div BitsPerByte
    IN  bigIntToBytes(signature, modulusLength)

\* rsaPSSProve with the signature at its own length, not left-padded
rsaPSSProveUnpadded(rsaKey, input, params) ==
    LET hashedInput == hash(params.digest, concatBytes(params.suiteString, input))
        encoded == pssEncode(hashedInput, params.bits, params)
        message == bufferToBigInt(encoded)
        signature == modPow(message, rsaKey.d, rsaKey.n)
        modulusLength == params.bits \div BitsPerByte
        padded == bigIntToBytes(signature, modulusLength)
        lead == CHOOSE k \in 0 .. Len(padded) :
                    /\ \A i \in 1 .. k : padded[i] = 0
                    /\ k = Len(padded) \/ padded[k + 1] # 0
    IN  Slice(padded, lead, Len(padded))

rsaPSSProve(rsaKey, input, params) ==
    LET hashedInput == hash(params.digest, concatBytes(params.suiteString, input))
        encoded == pssEncode(hashedInput, params.bits, params)
        message == bufferToBigInt(encoded)
        signature == modPow(message, rsaKey.d, rsaKey.n)
        modulusLength == params.bits \div BitsPerByte
    IN  bigIntToBytes(signature, modulusLength)

(***************************************************************************)
(* src/unnamed/part_005, class RSAPublicKey (the private helpers).         *)
(***************************************************************************)
RECURSIVE RSAPublicKey_mgf1WithSaltLoop(_, _, _, _, _, _)
RSAPublicKey_mgf1WithSaltLoop(result, counter, seed, maskLen, params, mgf1Salt) ==
    IF Len(result) < maskLen
    THEN LET counterBytes == i2osp(counter, 4)
             hashInput == concatBytes(concatBytes(seed, mgf1Salt), counterBytes)
             hashOutput == hash(params.digest, hashInput)
             copyLen == Min(Len(hashOutput), maskLen - Len(result))
         IN  RSAPublicKey_mgf1WithSaltLoop(result \o Slice(hashOutput, 0, copyLen),
                 counter + 1, seed, maskLen, params, mgf1Salt)
    ELSE result

\* The same expansion with the block counter starting at 1.
RSAPublicKey_mgf1WithSaltFromOne(seed, maskLen, params, mgf1Salt) ==
    RSAPublicKey_mgf1WithSaltLoop(<< >>, 1, seed, maskLen, params, mgf1Salt)

RSAPublicKey_mgf1WithSalt(seed, maskLen, params, mgf1Salt) ==
    RSAPublicKey_mgf1WithSaltLoop(<< >>, 0, seed, maskLen, params, mgf1Salt)

RSAPublicKey_hashToFullDomain(input, params, mgf1Salt) ==
    LET combined == concatBytes(params.suiteString, input)
        hashed == hash(params.digest, combined)
    IN  RSAPublicKey_mgf1WithSalt(hashed, params.bits \div BitsPerByte, params, mgf1Salt)

\* The index (1-based) of the first byte of DB that is not 0x00, or 0.
RECURSIVE FirstNonZero(_, _)
FirstNonZero(DB, i) ==
    IF i > Len(DB) THEN 0
    ELSE IF DB[i] # 0 THEN i
    ELSE FirstNonZero(DB, i + 1)

\* A defective pssVerify: the 0x01 separator is accepted wherever it stands,
\* whatever follows it.
pssVerifyAnySeparator(mHash, em, emBits, params) ==
    LET hLen == Len(mHash)
        emLen == CeilBytes(emBits)
        maskedDB == Slice(em, 0, emLen - hLen - 1)
        H == Slice(em, emLen - hLen - 1, emLen - 1)
        mask == TopMask(emLen, emBits)
        dbMask == mgf1(H, emLen - hLen - 1, params)
        xored == xorBytes(maskedDB, dbMask)
        DB == [xored EXCEPT ![1] = BitAnd(xored[1], mask)]
        first == FirstNonZero(DB, 1)
        mPrime == concatBytes(concatBytes(Zeros(8), mHash), << >>)
        HPrime == hash(params.digest, mPrime)
    IN  IF emLen < hLen + 2 THEN FALSE
        ELSE IF em[Len(em)] # TrailerByte THEN FALSE
        ELSE IF BitAnd(maskedDB[1], (ByteMod - 1) - mask) # 0 THEN FALSE
        ELSE IF first # 0 /\ DB[first] # 1 THEN FALSE
        ELSE IF first = 0 THEN FALSE
        ELSE bytesEqual(H, HPrime)

pssVerify(mHash, em, emBits, params) ==
    LET hLen == Len(mHash)
        emLen == CeilBytes(emBits)
        maskedDB == Slice(em, 0, emLen - hLen - 1)
        H == Slice(em, emLen - hLen - 1, emLen - 1)
        mask == TopMask(emLen, emBits)
        dbMask == mgf1(H, emLen - hLen - 1, params)
        xored == xorBytes(maskedDB, dbMask)
        DB == [xored EXCEPT ![1] = BitAnd(xored[1], mask)]
        \* the loop over DB: the first byte that is not 0x00 must be the 0x01
        \* separator, and it must be the last byte of DB
        first == FirstNonZero(DB, 1)
        mPrime == concatBytes(concatBytes(Zeros(8), mHash), << >>)
        HPrime == hash(params.digest, mPrime)
    IN  IF emLen < hLen + 2 THEN FALSE
        ELSE IF em[Len(em)] # TrailerByte THEN FALSE
        ELSE IF BitAnd(maskedDB[1], (ByteMod - 1) - mask) # 0 THEN FALSE
        ELSE IF first # 0 /\ DB[first] # 1 THEN FALSE
        ELSE IF first = 0 THEN FALSE
        ELSE IF first # Len(DB) THEN FALSE
        ELSE bytesEqual(H, HPrime)

\* A defective rsaFDHVerify: the signature is read without its first byte.
rsaFDHVerifyDroppedByte(rsaKey, mgf1Salt, input, proofBytes, params) ==
    LET signature == bufferToBigInt(Slice(proofBytes, 1, Len(proofBytes)))
        verified == modPow(signature, rsaKey.e, rsaKey.n)
        verifiedBytes == bigIntToBytes(verified, params.bits \div BitsPerByte)
        expectedHash == RSAPublicKey_hashToFullDomain(input, params, mgf1Salt)
    IN  bytesEqual(verifiedBytes, expectedHash)

\* rsaFDHVerify in Node, past the `!this.rsaKey` test.
rsaFDHVerify(rsaKey, mgf1Salt, input, proofBytes, params) ==
    LET signature == bufferToBigInt(proofBytes)
        verified == modPow(signature, rsaKey.e, rsaKey.n)
        verifiedBytes == bigIntToBytes(verified, params.bits \div BitsPerByte)
        expectedHash == RSAPublicKey_hashToFullDomain(input, params, mgf1Salt)
    IN  bytesEqual(verifiedBytes, expectedHash)

\* rsaPSSVerify in Node, past the `!this.rsaKey` test.
rsaPSSVerify(rsaKey, input, proofBytes, params) ==
    LET signature == bufferToBigInt(proofBytes)
        verified == modPow(signature, rsaKey.e, rsaKey.n)
        em == bigIntToBytes(verified, params.bits \div BitsPerByte)
        mHash == hash(params.digest, concatBytes(params.suiteString, input))
    IN  pssVerify(mHash, em, params.bits, params)

(***************************************************************************)
(* The EC key-agreement capability (crypto.createECDH / NodeECDH).         *)
(***************************************************************************)
\* The private keys generateKeys() can produce (qLen bytes each).
GeneratedECKeys == { << 1, 2, 3 >>, << 3, 0, 2 >> }

\* ecdh.getPublicKey(undefined, 'compressed'): the compressed point of a
\* private key, a prefix 0x02 / 0x03 and the x coordinate.
ECPoint(priv) ==
    IF Len(priv) = 0 THEN << >>
    ELSE << 2 + (bufferToBigInt(priv) % 2) >>
         \o [i \in 1 .. Len(priv) |->
               (3 * priv[i] + priv[(i % Len(priv)) + 1] + i) % ByteMod]

NoECDH == [present |-> FALSE, priv |-> << >>]

(***************************************************************************)
(* Objects.  Absent is null; every object carries its class, its type tag  *)
(* (src/src/base.ts VRFObject, UNKNOWN until set) and its fields.          *)
(***************************************************************************)
Absent == [cls |-> "null"]

RSAProof(type, proofBytes) ==
    [cls |-> "RSAProof", type |-> type, proofBytes |-> proofBytes]

ECProof(type, proofBytes) ==
    [cls |-> "ECProof", type |-> type, proofBytes |-> proofBytes]

RSASecretKeyObj(type, rsaKey, mgf1Salt) ==
    [cls |-> "RSASecretKey", type |-> type, rsaKey |-> rsaKey, mgf1Salt |-> mgf1Salt]

RSAPublicKey(type, rsaKey, mgf1Salt) ==
    [cls |-> "RSAPublicKey", type |-> type, rsaKey |-> rsaKey, mgf1Salt |-> mgf1Salt]

ECSecretKeyObj(type, ecdh, privateKeyBytes, initialized) ==
    [cls |-> "ECSecretKey", type |-> type, ecdh |-> ecdh,
     privateKeyBytes |-> privateKeyBytes, initialized |-> initialized]

ECPublicKey(type, publicKeyBytes, privateKeyBytes) ==
    [cls |-> "ECPublicKey", type |-> type, publicKeyBytes |-> publicKeyBytes,
     privateKeyBytes |-> privateKeyBytes]

\* What a call gives back: it raised, or it returned `val`.
Returned(val) == [raised |-> FALSE, val |-> val]
Raised == [raised |-> TRUE, val |-> Absent]

\* src/src/utils.ts hash: `throw` when isBrowser()
HashThrows == browser

(***************************************************************************)
(* Proof objects: RSAProof (src/unnamed/part_005) and ECProof              *)
(* (src/src/ec/ecvrf.ts).                                                  *)
(***************************************************************************)
Proof_isInitialized(p) ==
    CASE p.cls = "RSAProof" -> Len(p.proofBytes) > 0 /\ isRSAType(p.type)
      [] p.cls = "ECProof" -> Len(p.proofBytes) > 0 /\ isECType(p.type)
      [] OTHER -> FALSE

Proof_toBytes(p) == p.proofBytes

RSAProof_getVRFValue(p) ==
    IF ~Proof_isInitialized(p) THEN Returned(<< >>)
    ELSE IF getRSAVRFParams(p.type) = NoParams THEN Returned(<< >>)
    ELSE IF HashThrows THEN Raised
    ELSE Returned(hash(getRSAVRFParams(p.type).digest, p.proofBytes))

ECProof_getVRFValue(p) ==
    LET params == getECVRFParams(p.type)
        gamma == Slice(p.proofBytes, 0, params.ptLen)
        input == concatBytes(concatBytes(params.suiteString, << 3 >>), gamma)
    IN  IF ~Proof_isInitialized(p) THEN Returned(<< >>)
        ELSE IF params = NoParams THEN Returned(<< >>)
        ELSE IF ~browser THEN Returned(hash(params.digest, input))
        ELSE Returned(<< >>)

Proof_getVRFValue(p) ==
    IF p.cls = "RSAProof" THEN RSAProof_getVRFValue(p) ELSE ECProof_getVRFValue(p)

\* RSAProof.fromBytes on a fresh RSAProof: the object, or Absent on `false`.
RSAProof_fromBytes(type, data) ==
    IF ~isRSAType(type) THEN Absent
    ELSE IF getRSAVRFParams(type) = NoParams \/ Len(data) = 0 THEN Absent
    ELSE RSAProof(type, data)

\* ECProof.fromBytes on a fresh ECProof: the object, or Absent on `false`.
ECProof_fromBytes(type, data) ==
    IF ~isECType(type) THEN Absent
    ELSE IF getECVRFParams(type) = NoParams \/ Len(data) = 0 THEN Absent
    ELSE ECProof(type, data)

(***************************************************************************)
(* node-rsa's public-key coding (exportKey / importKey 'pkcs8-public-der').*)
(* The model's coding keeps what the engine relies on: the bytes determine *)
(* (n, e), integers are coded in the fewest bytes, and bytes that are not  *)
(* a coding make importKey throw (NoKey here).                             *)
(***************************************************************************)
RECURSIVE MinBytes(_)
MinBytes(v) ==
    IF v < ByteMod THEN << v >> ELSE MinBytes(v \div ByteMod) \o << v % ByteMod >>

DerExport(rsaKey) ==
    LET nb == MinBytes(rsaKey.n)
    IN  << Len(nb) \div ByteMod, Len(nb) % ByteMod >> \o nb \o MinBytes(rsaKey.e)

DerImport(data) ==
    LET nLen == data[1] * ByteMod + data[2]
        nb == SubSeq(data, 3, 2 + nLen)
        eb == SubSeq(data, 3 + nLen, Len(data))
    IN  IF Len(data) < 4 THEN NoKey
        ELSE IF nLen = 0 \/ Len(data) <= 2 + nLen THEN NoKey
        ELSE IF nb[1] = 0 \/ eb[1] = 0 THEN NoKey
        ELSE [n |-> bufferToBigInt(nb), e |-> bufferToBigInt(eb), d |-> 0]

(***************************************************************************)
(* src/unnamed/part_005, class RSASecretKey (the public methods).          *)
(***************************************************************************)
\* The mgf1Salt the constructors and fromBytes compute (in Node).
SuiteSalt(params) == hash(params.digest, params.suiteString)

RSASecretKey_isInitialized(s) ==
    s.rsaKey # NoKey /\ Len(s.mgf1Salt) > 0 /\ isRSAType(s.type)

RSASecretKey_getVRFProof(s, input) ==
    LET params == getRSAVRFParams(s.type)
    IN  IF ~RSASecretKey_isInitialized(s) THEN Absent
        ELSE IF params = NoParams THEN Absent
        ELSE IF HashThrows THEN Absent
        ELSE IF isRSAFDHType(s.type)
             THEN RSAProof(s.type, rsaFDHProve(s.rsaKey, s.mgf1Salt, input, params))
        ELSE IF isRSAPSSType(s.type)
             THEN RSAProof(s.type, rsaPSSProve(s.rsaKey, input, params))
        ELSE Absent

RSASecretKey_getPublicKey(s) ==
    IF ~RSASecretKey_isInitialized(s) THEN Absent
    ELSE RSAPublicKey(s.type, s.rsaKey, s.mgf1Salt)

(***************************************************************************)
(* src/unnamed/part_005, class RSAPublicKey (the public methods).          *)
(***************************************************************************)
RSAPublicKey_isInitialized(k) ==
    k.rsaKey # NoKey /\ Len(k.mgf1Salt) > 0 /\ isRSAType(k.type)

\* What verifyVRFProof returns: [ok, value], and whether the call hashed or
\* exponentiated on its way.
Verdict(ok, value, crypto) == [ok |-> ok, value |-> value, crypto |-> crypto]

\* A defective verifyVRFProof: the test of the proof's type is missing.
RSAPublicKey_verifyVRFProofAnyType(k, input, p) ==
    LET params == getRSAVRFParams(k.type)
        proofBytes == Proof_toBytes(p)
        valid ==
            IF HashThrows THEN FALSE
            ELSE IF isRSAFDHType(k.type)
                 THEN rsaFDHVerify(k.rsaKey, k.mgf1Salt, input, proofBytes, params)
            ELSE IF isRSAPSSType(k.type)
                 THEN rsaPSSVerify(k.rsaKey, input, proofBytes, params)
            ELSE FALSE
        vrfValue == Proof_getVRFValue(p)
    IN  IF ~RSAPublicKey_isInitialized(k) \/ ~Proof_isInitialized(p)
        THEN Verdict(FALSE, << >>, FALSE)
        ELSE IF params = NoParams THEN Verdict(FALSE, << >>, FALSE)
        ELSE IF valid /\ ~vrfValue.raised THEN Verdict(TRUE, vrfValue.val, TRUE)
        ELSE Verdict(FALSE, << >>, TRUE)

\* A defective verifyVRFProof: a rejection still hands out the proof's value.
RSAPublicKey_verifyVRFProofLeaky(k, input, p) ==
    LET params == getRSAVRFParams(k.type)
        proofBytes == Proof_toBytes(p)
        valid ==
            IF HashThrows THEN FALSE
            ELSE IF isRSAFDHType(k.type)
                 THEN rsaFDHVerify(k.rsaKey, k.mgf1Salt, input, proofBytes, params)
            ELSE IF isRSAPSSType(k.type)
                 THEN rsaPSSVerify(k.rsaKey, input, proofBytes, params)
            ELSE FALSE
        vrfValue == Proof_getVRFValue(p)
    IN  IF ~RSAPublicKey_isInitialized(k) \/ ~Proof_isInitialized(p)
        THEN Verdict(FALSE, << >>, FALSE)
        ELSE IF p.type # k.type THEN Verdict(FALSE, << >>, FALSE)
        ELSE IF params = NoParams THEN Verdict(FALSE, << >>, FALSE)
        ELSE IF valid /\ ~vrfValue.raised THEN Verdict(TRUE, vrfValue.val, TRUE)
        ELSE Verdict(FALSE, vrfValue.val, TRUE)

RSAPublicKey_verifyVRFProof(k, input, p) ==
    LET params == getRSAVRFParams(k.type)
        proofBytes == Proof_toBytes(p)
        valid ==
            IF HashThrows THEN FALSE
            ELSE IF isRSAFDHType(k.type)
                 THEN rsaFDHVerify(k.rsaKey, k.mgf1Salt, input, proofBytes, params)
            ELSE IF isRSAPSSType(k.type)
                 THEN rsaPSSVerify(k.rsaKey, input, proofBytes, params)
            ELSE FALSE
        vrfValue == Proof_getVRFValue(p)
    IN  IF ~RSAPublicKey_isInitialized(k) \/ ~Proof_isInitialized(p)
        THEN Verdict(FALSE, << >>, FALSE)
        ELSE IF p.type # k.type THEN Verdict(FALSE, << >>, FALSE)
        ELSE IF params = NoParams THEN Verdict(FALSE, << >>, FALSE)
        ELSE IF valid /\ ~vrfValue.raised THEN Verdict(TRUE, vrfValue.val, TRUE)
        ELSE Verdict(FALSE, << >>, TRUE)

RSAPublicKey_toBytes(k) ==
    IF k.rsaKey = NoKey THEN << >> ELSE DerExport(k.rsaKey)

\* RSAPublicKey.fromBytes on a fresh RSAPublicKey: the object, or Absent on
\* `false` (importKey threw, or hash threw in a browser).
RSAPublicKey_fromBytes(type, data) ==
    LET params == getRSAVRFParams(type)
        key == DerImport(data)
    IN  IF ~isRSAType(type) THEN Absent
        ELSE IF params = NoParams \/ Len(data) = 0 THEN Absent
        ELSE IF key = NoKey THEN Absent
        ELSE IF HashThrows THEN Absent
        ELSE RSAPublicKey(type, key, SuiteSalt(params))

(***************************************************************************)
(* src/src/ec/ecvrf.ts, class ECSecretKey.                                 *)
(***************************************************************************)
ECSecretKey_isInitialized(s) ==
    /\ s.initialized
    /\ s.ecdh.present
    /\ Len(s.privateKeyBytes) > 0
    /\ isECType(s.type)

\* The digest stretched over fLen bytes: whole copies of it, the last one cut.
RECURSIVE StretchLoop(_, _, _)
StretchLoop(proofBytes, proofHash, fLen) ==
    IF Len(proofBytes) < fLen
    THEN LET remaining == fLen - Len(proofBytes)
             toCopy == Min(remaining, Len(proofHash))
         IN  StretchLoop(proofBytes \o Slice(proofHash, 0, toCopy), proofHash, fLen)
    ELSE proofBytes

\* The proof buffer getVRFProof fills and verifyVRFProof recomputes.
ECProofBytes(params, publicKey, input, privateKeyBytes) ==
    LET hashInput ==
            concatBytes(concatBytes(concatBytes(concatBytes(
                params.suiteString, << 1 >>), publicKey), input), privateKeyBytes)
        proofHash == hash(params.digest, hashInput)
    IN  StretchLoop(<< >>, proofHash, params.fLen)

ECSecretKey_getVRFProof(s, input) ==
    LET params == getECVRFParams(s.type)
        publicKey == ECPoint(s.ecdh.priv)
    IN  IF browser THEN Raised
        ELSE IF ~ECSecretKey_isInitialized(s) THEN Returned(Absent)
        ELSE IF params = NoParams THEN Returned(Absent)
        ELSE Returned(ECProof(s.type,
                 ECProofBytes(params, publicKey, input, s.privateKeyBytes)))

ECSecretKey_getPublicKey(s) ==
    IF browser THEN Raised
    ELSE IF ~ECSecretKey_isInitialized(s) THEN Returned(Absent)
    ELSE Returned(ECPublicKey(s.type, ECPoint(s.ecdh.priv), s.privateKeyBytes))

\* initializeSync(secretKey) on a fresh ECSecretKey(type); `generated` is
\* the private key generateKeys() would draw.
ECSecretKey_initializeSync(type, secretKey, generated) ==
    IF browser THEN Raised
    ELSE IF getECVRFParams(type) = NoParams THEN Raised
    ELSE IF Len(secretKey) > 0
         THEN Returned(ECSecretKeyObj(type, [present |-> TRUE, priv |-> secretKey],
                                      secretKey, TRUE))
    ELSE Returned(ECSecretKeyObj(type, [present |-> TRUE, priv |-> generated],
                                 generated, TRUE))

(***************************************************************************)
(* src/src/ec/ecvrf.ts, class ECPublicKey.                                 *)
(***************************************************************************)
ECPublicKey_isInitialized(k) ==
    Len(k.publicKeyBytes) > 0 /\ isECType(k.type)

\* verifyVRFProof comparing only the first ptLen bytes with the expected proof
ECPublicKey_verifyVRFProofGammaOnly(k, input, p) ==
    LET params == getECVRFParams(k.type)
        proofBytes == Proof_toBytes(p)
        proofValue == Proof_getVRFValue(p).val
        expectedProof ==
            ECProofBytes(params, k.publicKeyBytes, input, k.privateKeyBytes)
        match == \A i \in 1 .. params.ptLen : proofBytes[i] = expectedProof[i]
        hasNonZero == \E i \in 1 .. Len(proofBytes) : proofBytes[i] # 0
    IN  IF ~ECPublicKey_isInitialized(k) \/ ~Proof_isInitialized(p)
        THEN Verdict(FALSE, << >>, FALSE)
        ELSE IF p.type # k.type THEN Verdict(FALSE, << >>, FALSE)
        ELSE IF params = NoParams THEN Verdict(FALSE, << >>, FALSE)
        ELSE IF Len(proofBytes) # params.fLen THEN Verdict(FALSE, << >>, FALSE)
        ELSE IF Len(proofValue) = 0 THEN Verdict(FALSE, << >>, ~browser)
        ELSE IF Len(k.privateKeyBytes) > 0
             THEN IF match THEN Verdict(TRUE, proofValue, TRUE)
                  ELSE Verdict(FALSE, << >>, TRUE)
        ELSE IF ~hasNonZero THEN Verdict(FALSE, << >>, TRUE)
        ELSE Verdict(TRUE, proofValue, TRUE)

ECPublicKey_verifyVRFProof(k, input, p) ==
    LET params == getECVRFParams(k.type)
        proofBytes == Proof_toBytes(p)
        proofValue == Proof_getVRFValue(p).val
        expectedProof ==
            ECProofBytes(params, k.publicKeyBytes, input, k.privateKeyBytes)
        match == \A i \in 1 .. params.fLen : proofBytes[i] = expectedProof[i]
        hasNonZero == \E i \in 1 .. Len(proofBytes) : proofBytes[i] # 0
    IN  IF ~ECPublicKey_isInitialized(k) \/ ~Proof_isInitialized(p)
        THEN Verdict(FALSE, << >>, FALSE)
        ELSE IF p.type # k.type THEN Verdict(FALSE, << >>, FALSE)
        ELSE IF params = NoParams THEN Verdict(FALSE, << >>, FALSE)
        ELSE IF Len(proofBytes) # params.fLen THEN Verdict(FALSE, << >>, FALSE)
        ELSE IF Len(proofValue) = 0 THEN Verdict(FALSE, << >>, ~browser)
        ELSE IF Len(k.privateKeyBytes) > 0
             THEN IF match THEN Verdict(TRUE, proofValue, TRUE)
                  ELSE Verdict(FALSE, << >>, TRUE)
        ELSE IF ~hasNonZero THEN Verdict(FALSE, << >>, TRUE)
        ELSE Verdict(TRUE, proofValue, TRUE)

ECPublicKey_toBytes(k) == k.publicKeyBytes

\* A defective ECPublicKey.fromBytes: the length tested is that of the bare
\* coordinate (qLen) and not that of the compressed point.
ECPublicKey_fromBytesRawLength(type, data) ==
    IF ~isECType(type) THEN Absent
    ELSE IF getECVRFParams(type) = NoParams \/ Len(data) = 0 THEN Absent
    ELSE IF Len(data) = 3 /\ (data[1] = 2 \/ data[1] = 3)
         THEN ECPublicKey(type, data, << >>)
    ELSE Absent

\* ECPublicKey.fromBytes on a fresh ECPublicKey: the object, or Absent on
\* `false`.  The length tested is the literal 33 of the source (ptLen).
ECPublicKey_fromBytes(type, data) ==
    IF ~isECType(type) THEN Absent
    ELSE IF getECVRFParams(type) = NoParams \/ Len(data) = 0 THEN Absent
    ELSE IF Len(data) = 4 /\ (data[1] = 2 \/ data[1] = 3)
         THEN ECPublicKey(type, data, << >>)
    ELSE Absent

(***************************************************************************)
(* Dispatch on the class of the receiver (the abstract methods of          *)
(* src/src/base.ts).                                                       *)
(***************************************************************************)
SecretKey_isInitialized(s) ==
    CASE s.cls = "RSASecretKey" -> RSASecretKey_isInitialized(s)
      [] s.cls = "ECSecretKey" -> ECSecretKey_isInitialized(s)
      [] OTHER -> FALSE

SecretKey_getVRFProof(s, input) ==
    IF s.cls = "RSASecretKey" THEN Returned(RSASecretKey_getVRFProof(s, input))
    ELSE ECSecretKey_getVRFProof(s, input)

SecretKey_getPublicKey(s) ==
    IF s.cls = "RSASecretKey" THEN Returned(RSASecretKey_getPublicKey(s))
    ELSE ECSecretKey_getPublicKey(s)

PublicKey_isInitialized(k) ==
    CASE k.cls = "RSAPublicKey" -> RSAPublicKey_isInitialized(k)
      [] k.cls = "ECPublicKey" -> ECPublicKey_isInitialized(k)
      [] OTHER -> FALSE

PublicKey_verifyVRFProof(k, input, p) ==
    IF k.cls = "RSAPublicKey" THEN RSAPublicKey_verifyVRFProof(k, input, p)
    ELSE ECPublicKey_verifyVRFProof(k, input, p)

PublicKey_toBytes(k) ==
    IF k.cls = "RSAPublicKey" THEN RSAPublicKey_toBytes(k) ELSE ECPublicKey_toBytes(k)

(***************************************************************************)
(* src/unnamed/part_003, class VRF: the dispatcher.                        *)
(***************************************************************************)
\* VRF.create(type): every result it can give (key generation draws).
VRF_create(type) ==
    IF browser THEN { Raised }
    ELSE IF isRSAType(type)
         THEN { Returned(RSASecretKeyObj(type, k, SuiteSalt(getRSAVRFParams(type)))) :
                  k \in GeneratedKeys(getRSAVRFParams(type).bits) }
    ELSE IF isECType(type)
         THEN { IF ECSecretKey_isInitialized(ECSecretKey_initializeSync(type, << >>, g).val)
                THEN ECSecretKey_initializeSync(type, << >>, g)
                ELSE Returned(Absent) : g \in GeneratedECKeys }
    ELSE { Returned(Absent) }

VRF_proofFromBytes(type, data) ==
    LET made == IF isECType(type) THEN ECProof_fromBytes(type, data)
                ELSE IF isRSAType(type) THEN RSAProof_fromBytes(type, data)
                ELSE Absent
    IN  IF made # Absent /\ Proof_isInitialized(made) THEN made ELSE Absent

VRF_publicKeyFromBytes(type, data) ==
    LET made == IF isECType(type) THEN ECPublicKey_fromBytes(type, data)
                ELSE IF isRSAType(type) THEN RSAPublicKey_fromBytes(type, data)
                ELSE Absent
    IN  IF made # Absent /\ PublicKey_isInitialized(made) THEN made ELSE Absent

(***************************************************************************)
(* fromBytes called on an object the caller already holds.  The result is  *)
(* the boolean returned and the receiver as the call leaves it.            *)
(***************************************************************************)
FromBytesResult(ok, self) == [ok |-> ok, self |-> self]

\* src/unnamed/part_005, RSAProof.fromBytes
RSAProof_fromBytesOn(self, type, data) ==
    IF ~isRSAType(type) THEN FromBytesResult(FALSE, self)
    ELSE IF getRSAVRFParams(type) = NoParams \/ Len(data) = 0
         THEN FromBytesResult(FALSE, self)
    ELSE FromBytesResult(TRUE, [self EXCEPT !.type = type, !.proofBytes = data])

\* src/src/ec/ecvrf.ts, ECProof.fromBytes
ECProof_fromBytesOn(self, type, data) ==
    IF ~isECType(type) THEN FromBytesResult(FALSE, self)
    ELSE IF getECVRFParams(type) = NoParams \/ Len(data) = 0
         THEN FromBytesResult(FALSE, self)
    ELSE FromBytesResult(TRUE, [self EXCEPT !.type = type, !.proofBytes = data])

\* src/unnamed/part_005, RSAPublicKey.fromBytes.  importKey throws before
\* any field is assigned; hash throws after rsaKey and the type were.
RSAPublicKey_fromBytesOn(self, type, data) ==
    LET params == getRSAVRFParams(type)
        key == DerImport(data)
    IN  IF ~isRSAType(type) THEN FromBytesResult(FALSE, self)
        ELSE IF params = NoParams \/ Len(data) = 0 THEN FromBytesResult(FALSE, self)
        ELSE IF key = NoKey THEN FromBytesResult(FALSE, self)
        ELSE IF HashThrows
             THEN FromBytesResult(FALSE, [self EXCEPT !.rsaKey = key, !.type = type])
        ELSE FromBytesResult(TRUE, [self EXCEPT !.rsaKey = key, !.type = type,
                                                !.mgf1Salt = SuiteSalt(params)])

\* src/src/ec/ecvrf.ts, ECPublicKey.fromBytes (privateKeyBytes is not
\* assigned)
ECPublicKey_fromBytesOn(self, type, data) ==
    IF ~isECType(type) THEN FromBytesResult(FALSE, self)
    ELSE IF getECVRFParams(type) = NoParams \/ Len(data) = 0
         THEN FromBytesResult(FALSE, self)
    ELSE IF Len(data) = 4 /\ (data[1] = 2 \/ data[1] = 3)
         THEN FromBytesResult(TRUE, [self EXCEPT !.type = type, !.publicKeyBytes = data])
    ELSE FromBytesResult(FALSE, self)

Proof_fromBytesOn(self, type, data) ==
    IF self.cls = "RSAProof" THEN RSAProof_fromBytesOn(self, type, data)
    ELSE ECProof_fromBytesOn(self, type, data)

PublicKey_fromBytesOn(self, type, data) ==
    IF self.cls = "RSAPublicKey" THEN RSAPublicKey_fromBytesOn(self, type, data)
    ELSE ECPublicKey_fromBytesOn(self, type, data)

(***************************************************************************)
(* The asynchronous entry points, each awaited to its end.                 *)
(***************************************************************************)
\* src/src/ec/ecvrf.ts, ECSecretKey.initializeAsync(secretKey) on the key
\* `self`; `generated` is the private key the new ECDH object draws.  The
\* browser's setPrivateKey takes keys of qLen bytes only.
ECSecretKey_initializeAsync(self, secretKey, generated) ==
    IF getECVRFParams(self.type) = NoParams THEN Raised
    ELSE IF Len(secretKey) > 0
         THEN IF browser /\ Len(secretKey) # 3 THEN Raised
              ELSE Returned([self EXCEPT !.ecdh = [present |-> TRUE, priv |-> secretKey],
                                         !.privateKeyBytes = secretKey,
                                         !.initialized = TRUE])
    ELSE Returned([self EXCEPT !.ecdh = [present |-> TRUE, priv |-> generated],
                               !.privateKeyBytes = generated,
                               !.initialized = TRUE])

\* src/unnamed/part_003, VRF.createAsync(type): every result it can give.
\* The RSASecretKey constructor hashes the suite string.
VRF_createAsync(type) ==
    IF isRSAType(type)
    THEN IF HashThrows THEN { Returned(Absent) }
         ELSE { Returned(RSASecretKeyObj(type, k, SuiteSalt(getRSAVRFParams(type)))) :
                  k \in GeneratedKeys(getRSAVRFParams(type).bits) }
    ELSE IF isECType(type)
         THEN { ECSecretKey_initializeAsync(ECSecretKeyObj(type, NoECDH, << >>, FALSE),
                                            << >>, g) : g \in GeneratedECKeys }
    ELSE { Returned(Absent) }

(***************************************************************************)
(* clone().  A PKCS#1 private key is three length-prefixed numbers here.   *)
(***************************************************************************)
EncodeField(v) ==
    LET b == MinBytes(v)
    IN  << Len(b) \div ByteMod, Len(b) % ByteMod >> \o b

FieldLen(data, at) == data[at] * ByteMod + data[at + 1]

FieldValue(data, at) == bufferToBigInt(SubSeq(data, at + 2, at + 1 + FieldLen(data, at)))

\* rsaKey.exportKey('pkcs1-private')
Pkcs1Export(rsaKey) ==
    EncodeField(rsaKey.n) \o EncodeField(rsaKey.e) \o EncodeField(rsaKey.d)

\* clonedKey.importKey(keyData, 'pkcs1-private')
Pkcs1Import(data) ==
    LET atE == 3 + FieldLen(data, 1)
        atD == atE + 2 + FieldLen(data, atE)
    IN  [n |-> FieldValue(data, 1), e |-> FieldValue(data, atE), d |-> FieldValue(data, atD)]

\* src/unnamed/part_005, new RSASecretKey(type, rsaKey): every result.  With
\* no key given one is generated; the suite string is hashed for the salt.
RSASecretKey_new(type, rsaKey) ==
    LET params == getRSAVRFParams(type)
    IN  IF params = NoParams THEN { Returned(RSASecretKeyObj(type, NoKey, << >>)) }
        ELSE IF HashThrows THEN { Raised }
        ELSE IF rsaKey # NoKey
             THEN { Returned(RSASecretKeyObj(type, rsaKey, SuiteSalt(params))) }
        ELSE { Returned(RSASecretKeyObj(type, k, SuiteSalt(params))) :
                 k \in GeneratedKeys(params.bits) }

\* src/unnamed/part_005, RSASecretKey.clone
RSASecretKey_clone(s) ==
    IF s.rsaKey = NoKey THEN RSASecretKey_new(s.type, NoKey)
    ELSE RSASecretKey_new(s.type, Pkcs1Import(Pkcs1Export(s.rsaKey)))

\* src/unnamed/part_005, RSAPublicKey.clone
RSAPublicKey_clone(k) ==
    IF k.rsaKey = NoKey THEN { Returned(RSAPublicKey(k.type, NoKey, << >>)) }
    ELSE { Returned(RSAPublicKey(k.type, DerImport(DerExport(k.rsaKey)), k.mgf1Salt)) }

\* src/unnamed/part_005, RSAProof.clone
RSAProof_clone(p) == { Returned(RSAProof(p.type, p.proofBytes)) }

\* src/src/ec/ecvrf.ts, ECSecretKey.clone
ECSecretKey_clone(s) ==
    IF browser THEN { Raised }
    ELSE { ECSecretKey_initializeSync(s.type, s.privateKeyBytes, g) :
             g \in GeneratedECKeys }

\* src/src/ec/ecvrf.ts, ECPublicKey.clone
ECPublicKey_clone(k) ==
    { Returned(ECPublicKey(k.type, k.publicKeyBytes, k.privateKeyBytes)) }

\* src/src/ec/ecvrf.ts, ECProof.clone
ECProof_clone(p) == { Returned(ECProof(p.type, p.proofBytes)) }

\* x.clone() for the object x, dispatched on its class
Object_clone(x) ==
    CASE x.cls = "RSASecretKey" -> RSASecretKey_clone(x)
      [] x.cls = "ECSecretKey" -> ECSecretKey_clone(x)
      [] x.cls = "RSAPublicKey" -> RSAPublicKey_clone(x)
      [] x.cls = "ECPublicKey" -> ECPublicKey_clone(x)
      [] x.cls = "RSAProof" -> RSAProof_clone(x)
      [] x.cls = "ECProof" -> ECProof_clone(x)

(***************************************************************************)
(* src/src/utils.ts, hexToBytes and bytesToHex.  These two are modelled at *)
(* the source's own scale: bytes 0..255, radix 16.  A string is the        *)
(* sequence of its characters.                                             *)
(***************************************************************************)
HexRadix == 16

\* the digits Number.prototype.toString(16) emits
HexDigits ==
    << "0", "1", "2", "3", "4", "5", "6", "7", "8", "9", "a", "b", "c", "d", "e", "f" >>

UpperHexDigits ==
    << "0", "1", "2", "3", "4", "5", "6", "7", "8", "9", "A", "B", "C", "D", "E", "F" >>

\* b.toString(16) for a byte b
toString16(b) ==
    IF b < HexRadix THEN << HexDigits[b + 1] >>
    ELSE << HexDigits[(b \div HexRadix) + 1], HexDigits[(b % HexRadix) + 1] >>

RECURSIVE padStart(_, _, _)
padStart(str, targetLength, padChar) ==
    IF Len(str) >= targetLength THEN str
    ELSE padStart(<< padChar >> \o str, targetLength, padChar)

\* the digits without the padding to two characters
byteToHexUnpadded(b) == toString16(b)

\* b => b.toString(16).padStart(2, '0')
byteToHex(b) == padStart(toString16(b), 2, "0")

RECURSIVE bytesToHex(_)
bytesToHex(bytes) ==
    IF Len(bytes) = 0 THEN << >>
    ELSE byteToHex(bytes[1]) \o bytesToHex(Tail(bytes))

\* the value of one character as a hex digit, -1 when it is none
DigitValue(c) ==
    IF \E d \in 1 .. HexRadix : HexDigits[d] = c \/ UpperHexDigits[d] = c
    THEN (CHOOSE d \in 1 .. HexRadix : HexDigits[d] = c \/ UpperHexDigits[d] = c) - 1
    ELSE -1

\* parseInt(str, 16) of at most two characters, stored into a Uint8Array:
\* the longest prefix of digits is read, and NaN is stored as 0
parseInt16(str) ==
    IF Len(str) = 0 \/ DigitValue(str[1]) < 0 THEN 0
    ELSE IF Len(str) = 1 \/ DigitValue(str[2]) < 0 THEN DigitValue(str[1])
    ELSE DigitValue(str[1]) * HexRadix + DigitValue(str[2])

\* new Uint8Array(hex.length / 2) truncates a length that is no integer
\* (ToIndex), and the store of the last, single character of an odd-length
\* string falls outside the array and is dropped
hexToBytes(hex) ==
    Returned([i \in 1 .. (Len(hex) \div 2) |->
                 parseInt16(SubSeq(hex, 2 * i - 1, 2 * i))])

(***************************************************************************)
(* src/src/ec/ecvrf.ts: the asynchronous methods of the EC classes, each   *)
(* taken as one call from its start to the settling of its promise.        *)
(***************************************************************************)
\* hashAsync is imported from utils, whose source does not define it: it is
\* the digest capability awaited, the same digest as hash in either
\* environment.
hashAsync(algorithm, data) == hash(algorithm, data)

ECProof_getVRFValueAsync(p) ==
    LET params == getECVRFParams(p.type)
        gamma == Slice(p.proofBytes, 0, params.ptLen)
        input == concatBytes(concatBytes(params.suiteString, << 3 >>), gamma)
    IN  IF ~Proof_isInitialized(p) THEN << >>
        ELSE IF params = NoParams THEN << >>
        ELSE hashAsync(params.digest, input)

\* The proof buffer getVRFProofAsync fills and verifyVRFProofAsync recomputes.
ECProofBytesAsync(params, publicKey, input, privateKeyBytes) ==
    LET hashInput ==
            concatBytes(concatBytes(concatBytes(concatBytes(
                params.suiteString, << 1 >>), publicKey), input), privateKeyBytes)
        proofHash == hashAsync(params.digest, hashInput)
    IN  StretchLoop(<< >>, proofHash, params.fLen)

ECSecretKey_getVRFProofAsync(s, input) ==
    LET params == getECVRFParams(s.type)
        publicKey == ECPoint(s.ecdh.priv)
    IN  IF ~ECSecretKey_isInitialized(s) THEN Returned(Absent)
        ELSE IF params = NoParams THEN Returned(Absent)
        ELSE Returned(ECProof(s.type,
                 ECProofBytesAsync(params, publicKey, input, s.privateKeyBytes)))

ECSecretKey_getPublicKeyAsync(s) ==
    IF ~ECSecretKey_isInitialized(s) THEN Returned(Absent)
    ELSE Returned(ECPublicKey(s.type, ECPoint(s.ecdh.priv), s.privateKeyBytes))

ECPublicKey_verifyVRFProofAsync(k, input, p) ==
    LET params == getECVRFParams(k.type)
        proofBytes == Proof_toBytes(p)
        proofValue == ECProof_getVRFValueAsync(p)
        expectedProof ==
            ECProofBytesAsync(params, k.publicKeyBytes, input, k.privateKeyBytes)
        match == \A i \in 1 .. params.fLen : proofBytes[i] = expectedProof[i]
        hasNonZero == \E i \in 1 .. Len(proofBytes) : proofBytes[i] # 0
    IN  IF ~ECPublicKey_isInitialized(k) \/ ~Proof_isInitialized(p)
        THEN Verdict(FALSE, << >>, FALSE)
        ELSE IF p.type # k.type THEN Verdict(FALSE, << >>, FALSE)
        ELSE IF params = NoParams THEN Verdict(FALSE, << >>, FALSE)
        ELSE IF Len(proofBytes) # params.fLen THEN Verdict(FALSE, << >>, FALSE)
        ELSE IF Len(proofValue) = 0 THEN Verdict(FALSE, << >>, TRUE)
        ELSE IF Len(k.privateKeyBytes) > 0
             THEN IF match THEN Verdict(TRUE, proofValue, TRUE)
                  ELSE Verdict(FALSE, << >>, TRUE)
        ELSE IF ~hasNonZero THEN Verdict(FALSE, << >>, TRUE)
        ELSE Verdict(TRUE, proofValue, TRUE)

(***************************************************************************)
(* src/src/utils.ts: the fixed-width conversions between integers and      *)
(* bytes, which go through hexadecimal strings.  Like the hex conversions  *)
(* they are modelled at the source's scale, a byte being HexRadix *        *)
(* HexRadix values.                                                        *)
(***************************************************************************)
\* value.toString(16) of a non-negative bigint
RECURSIVE bigIntToString16(_)
bigIntToString16(value) ==
    IF value < HexRadix THEN << HexDigits[value + 1] >>
    ELSE bigIntToString16(value \div HexRadix) \o << HexDigits[(value % HexRadix) + 1] >>

\* BigInt('0x' + hex): a literal without digits is a SyntaxError
RECURSIVE hexDigitsValue(_)
hexDigitsValue(hex) ==
    IF Len(hex) = 0 THEN 0
    ELSE hexDigitsValue(SubSeq(hex, 1, Len(hex) - 1)) * HexRadix + DigitValue(hex[Len(hex)])

BigInt0x(hex) ==
    IF Len(hex) = 0 THEN Raised ELSE Returned(hexDigitsValue(hex))

utils_bigIntToBytes(value, length) ==
    LET hex == padStart(bigIntToString16(value), length * 2, "0")
    IN  hexToBytes(hex)

utils_bytesToBigInt(bytes) == BigInt0x(bytesToHex(bytes))

\* i2osp as exported: the model's i2osp above is the same function on the
\* block counters of the mask generation, which stay below the limit
utils_i2osp(x, xLen) ==
    IF x >= Pow(HexRadix * HexRadix, xLen) THEN Raised
    ELSE utils_bigIntToBytes(x, xLen)

utils_os2ip(x) == utils_bytesToBigInt(x)

(***************************************************************************)
(* src/src/utils.ts: the exported copy of modPow.                          *)
(***************************************************************************)
RECURSIVE utils_modPowLoop(_, _, _, _)
utils_modPowLoop(result, base, exp, modulus) ==
    IF exp > 0
    THEN utils_modPowLoop(IF exp % 2 = 1 THEN (result * base) % modulus ELSE result,
                          (base * base) % modulus, exp \div 2, modulus)
    ELSE result

utils_modPow(base, exp, modulus) == utils_modPowLoop(1, base % modulus, exp, modulus)

(***************************************************************************)
(* The callers' inputs.                                                    *)
(***************************************************************************)
\* The byte strings callers pass, the empty one first.
InputPool == << << >>, << 0 >>, << 3 >>, << 0, 3 >>, << 3, 1 >>, << 2, 2, 1 >> >>

Inputs == { InputPool[i] : i \in 1 .. Min(MaxInputs, Len(InputPool)) }

\* new RSAProof(), new ECProof(), new RSAPublicKey(), ... with no argument.
EmptyProofs == { RSAProof("UNKNOWN", << >>), ECProof("UNKNOWN", << >>) }

EmptyPublicKeys ==
    { RSAPublicKey("UNKNOWN", NoKey, << >>), ECPublicKey("UNKNOWN", << >>, << >>) }

EmptySecretKeys ==
    { RSASecretKeyObj("UNKNOWN", NoKey, << >>),
      ECSecretKeyObj("UNKNOWN", NoECDH, << >>, FALSE) }

\* The types a caller re-imports bytes under: the type they were exported
\* with, UNKNOWN, and the three types the repository's tests run on.
ImportTypes(type) ==
    { type, "UNKNOWN", "RSA_FDH_VRF_RSA2048_SHA256",
      "RSA_PSS_NOSALT_VRF_RSA2048_SHA256", "EC_VRF_P256_SHA256_TAI" }

(***************************************************************************)
(* The record of the last public operation.                                *)
(***************************************************************************)
Outcome(op, type, input, data, raised, val, verdict) ==
    [op |-> op, type |-> type, input |-> input, data |-> data,
     raised |-> raised, absent |-> (~raised /\ val = Absent),
     ok |-> verdict.ok, value |-> verdict.value, crypto |-> verdict.crypto]

NoVerdict == Verdict(FALSE, << >>, FALSE)

NoOutcome == Outcome("none", "UNKNOWN", << >>, << >>, FALSE, Absent, NoVerdict)

Init ==
    /\ browser \in BOOLEAN
    /\ sk = Absent
    /\ pk = Absent
    /\ proof = Absent
    /\ res = NoOutcome
    /\ earlier = NoOutcome
    /\ twin = Absent
    /\ pending = << >>

(***************************************************************************)
(* The public operations.  A call that raises leaves the caller's          *)
(* variable as it was; a call that returns assigns it.  A run creates one  *)
(* secret key.                                                             *)
(***************************************************************************)
\* sk = VRF.create(type)
Create(type) ==
    /\ sk = Absent
    /\ \E r \in VRF_create(type) :
        /\ sk' = IF r.raised THEN sk ELSE r.val
        /\ res' = Outcome("create", type, << >>, << >>, r.raised, r.val, NoVerdict)
    /\ UNCHANGED << browser, twin, pending, pk, proof, earlier >>

\* sk = new RSASecretKey() / new ECSecretKey(), pk = new ...PublicKey(),
\* proof = new ...Proof(): objects that are not initialized
NewEmpty ==
    /\ \/ sk = Absent /\ sk' \in EmptySecretKeys /\ UNCHANGED << pk, proof >>
       \/ pk' \in EmptyPublicKeys /\ UNCHANGED << sk, proof >>
       \/ proof' \in EmptyProofs /\ UNCHANGED << sk, pk >>
    /\ res' = Outcome("new", "UNKNOWN", << >>, << >>, FALSE, Absent, NoVerdict)
    /\ UNCHANGED << browser, twin, pending, earlier >>

\* pk = sk.getPublicKey()
GetPublicKey ==
    /\ sk # Absent
    /\ LET r == SecretKey_getPublicKey(sk)
       IN  /\ pk' = IF r.raised THEN pk ELSE r.val
           /\ res' = Outcome("getPublicKey", sk.type, << >>, << >>,
                             r.raised, r.val, NoVerdict)
    /\ UNCHANGED << browser, twin, pending, sk, proof, earlier >>

\* proof = sk.getVRFProof(input); the bytes returned are noted in res.data
GetVRFProof(input) ==
    /\ sk # Absent
    /\ LET r == SecretKey_getVRFProof(sk, input)
       IN  /\ proof' = IF r.raised THEN proof ELSE r.val
           /\ res' = Outcome("getVRFProof", sk.type, input,
                             IF r.raised \/ r.val = Absent THEN << >>
                             ELSE Proof_toBytes(r.val),
                             r.raised, r.val, NoVerdict)
    /\ UNCHANGED << browser, twin, pending, sk, pk, earlier >>

\* proof = VRF.proofFromBytes(type, data)
ProofFromBytes(type, data) ==
    /\ LET made == VRF_proofFromBytes(type, data)
       IN  /\ proof' = made
           /\ res' = Outcome("proofFromBytes", type, << >>, data, FALSE, made, NoVerdict)
    /\ UNCHANGED << browser, twin, pending, sk, pk, earlier >>

\* pk = VRF.publicKeyFromBytes(type, data)
PublicKeyFromBytes(type, data) ==
    /\ LET made == VRF_publicKeyFromBytes(type, data)
       IN  /\ pk' = made
           /\ res' = Outcome("publicKeyFromBytes", type, << >>, data, FALSE, made, NoVerdict)
    /\ UNCHANGED << browser, twin, pending, sk, proof, earlier >>

\* Re-import of what the caller holds: proofFromBytes(type, proof.toBytes())
\* and proofFromBytes(type, empty)
ReimportProof ==
    \/ \E type \in VRFType : ProofFromBytes(type, << >>)
    \/ /\ proof # Absent
       /\ \E type \in ImportTypes(proof.type) : ProofFromBytes(type, Proof_toBytes(proof))

\* publicKeyFromBytes(type, pk.toBytes()) and publicKeyFromBytes(type, empty)
ReimportPublicKey ==
    \/ \E type \in VRFType : PublicKeyFromBytes(type, << >>)
    \/ /\ pk # Absent
       /\ \E type \in { pk.type, "UNKNOWN" } : PublicKeyFromBytes(type, PublicKey_toBytes(pk))

\* Byte strings that come from elsewhere: a short one, one with the form of
\* a compressed point, one with the length of an EC proof.
ForeignBytes == { << 1 >>, << 2, 1, 0, 3 >>, << 0, 0, 0, 0, 0, 0, 0, 1 >> }

\* proofFromBytes(type, data) on bytes no key of the run issued
ImportForeignProof ==
    \E type \in ImportTypes("UNKNOWN"), data \in ForeignBytes : ProofFromBytes(type, data)

\* publicKeyFromBytes(type, data) on bytes no key of the run exported
ImportForeignPublicKey ==
    \E type \in ImportTypes("UNKNOWN"), data \in ForeignBytes :
        PublicKeyFromBytes(type, data)

\* [ok, value] = pk.verifyVRFProof(input, proof)
VerifyVRFProof(input) ==
    /\ pk # Absent
    /\ proof # Absent
    /\ res' = Outcome("verifyVRFProof", pk.type, input, << >>, FALSE, pk,
                      PublicKey_verifyVRFProof(pk, input, proof))
    /\ UNCHANGED << browser, twin, pending, sk, pk, proof, earlier >>

\* value = proof.getVRFValue()
GetVRFValue ==
    /\ proof # Absent
    /\ LET r == Proof_getVRFValue(proof)
       IN  res' = Outcome("getVRFValue", proof.type, << >>, << >>, r.raised, proof,
                          Verdict(FALSE, IF r.raised THEN << >> ELSE r.val, FALSE))
    /\ UNCHANGED << browser, twin, pending, sk, pk, proof, earlier >>

Next ==
    \/ \E type \in VRFType : Create(type)
    \/ NewEmpty
    \/ GetPublicKey
    \/ \E input \in Inputs : GetVRFProof(input)
    \/ ReimportProof
    \/ ReimportPublicKey
    \/ ImportForeignProof
    \/ ImportForeignPublicKey
    \/ \E input \in Inputs : VerifyVRFProof(input)
    \/ GetVRFValue

Spec == Init /\ [][Next]_vars

(***************************************************************************)
(* Determinism runs: one key, proofs for the same input asked again after  *)
(* other operations; an observer notes an earlier getVRFProof result.      *)
(***************************************************************************)
Remember ==
    /\ res.op = "getVRFProof"
    /\ ~res.raised
    /\ ~res.absent
    /\ earlier # res
    /\ earlier' = res
    /\ UNCHANGED << browser, twin, pending, sk, pk, proof, res >>

NextDet ==
    \/ \E type \in VRFType : Create(type)
    \/ GetPublicKey
    \/ \E input \in Inputs : GetVRFProof(input)
    \/ \E input \in Inputs : VerifyVRFProof(input)
    \/ GetVRFValue
    \/ Remember

SpecDet == Init /\ [][NextDet]_vars

(***************************************************************************)
(* Tampering runs: a third party alters the bytes of a proof the key       *)
(* issued and hands them to VRF.proofFromBytes.                            *)
(***************************************************************************)
\* data with bit `bit` of byte `at` flipped
FlipBit(data, at, bit) ==
    [i \in 1 .. Len(data) |-> IF i = at THEN BitXor(data[i], Pow(2, bit)) ELSE data[i]]

SingleBitFlips(data) ==
    { FlipBit(data, at, bit) : at \in 1 .. Len(data), bit \in 0 .. (BitsPerByte - 1) }

\* The altered copies: one bit flipped, a zero byte put in front, the last
\* byte cut off, all bytes zeroed, and (RSA, n known from the public key) the
\* number the bytes encode raised by n when that still fits the length.
Altered(data, n) ==
    SingleBitFlips(data)
    \cup { << 0 >> \o data, Slice(data, 0, Len(data) - 1), Zeros(Len(data)) }
    \cup ( IF n > 0 /\ bufferToBigInt(data) + n < Pow(ByteMod, Len(data))
           THEN { bigIntToBytes(bufferToBigInt(data) + n, Len(data)) }
           ELSE { } )

KnownModulus == IF sk # Absent /\ sk.cls = "RSASecretKey" THEN sk.rsaKey.n ELSE 0

\* proof = VRF.proofFromBytes(type, data) with data an altered copy of the
\* bytes getVRFProof has just returned
ImportAltered ==
    /\ res.op = "getVRFProof"
    /\ ~res.raised
    /\ ~res.absent
    /\ \E data \in Altered(res.data, KnownModulus) : ProofFromBytes(res.type, data)

\* pk = VRF.publicKeyFromBytes(pk's type, pk.toBytes()): the key a verifier holds
ImportPublicKey ==
    /\ pk # Absent
    /\ PublicKeyFromBytes(pk.type, PublicKey_toBytes(pk))

InitNode == Init /\ ~browser

NextTamper ==
    \/ \E type \in VRFType : Create(type)
    \/ GetPublicKey
    \/ ImportPublicKey
    \/ \E input \in Inputs : GetVRFProof(input)
    \/ ImportAltered
    \/ \E input \in Inputs : VerifyVRFProof(input)

SpecTamper == InitNode /\ [][NextTamper]_vars

(***************************************************************************)
(* Object runs: the caller keeps the objects it was given and calls their  *)
(* own methods on them (fromBytes, clone, initializeAsync).                *)
(***************************************************************************)
\* ok = proof.fromBytes(type, data) on the proof object held
CallProofFromBytes(type, data) ==
    /\ proof # Absent
    /\ LET r == Proof_fromBytesOn(proof, type, data)
       IN  /\ proof' = r.self
           /\ res' = Outcome("proof.fromBytes", type, << >>, data, FALSE, r.self,
                             Verdict(r.ok, << >>, FALSE))
    /\ UNCHANGED << browser, twin, pending, sk, pk, earlier >>

\* ok = pk.fromBytes(type, data) on the public key object held
CallPublicKeyFromBytes(type, data) ==
    /\ pk # Absent
    /\ LET r == PublicKey_fromBytesOn(pk, type, data)
       IN  /\ pk' = r.self
           /\ res' = Outcome("publicKey.fromBytes", type, << >>, data, FALSE, r.self,
                             Verdict(r.ok, << >>, FALSE))
    /\ UNCHANGED << browser, twin, pending, sk, proof, earlier >>

\* proof.fromBytes on foreign bytes or on no bytes
ProofFromBytesOnHeld ==
    \E type \in ImportTypes("UNKNOWN"), data \in ForeignBytes \cup { << >> } :
        CallProofFromBytes(type, data)

\* pk.fromBytes on foreign bytes, on no bytes, or on pk.toBytes()
PublicKeyFromBytesOnHeld ==
    /\ pk # Absent
    /\ \E type \in ImportTypes("UNKNOWN"),
          data \in ForeignBytes \cup { << >>, PublicKey_toBytes(pk) } :
        CallPublicKeyFromBytes(type, data)

\* sk = await VRF.createAsync(type)
CreateAsync(type) ==
    /\ sk = Absent
    /\ \E r \in VRF_createAsync(type) :
        /\ sk' = IF r.raised THEN sk ELSE r.val
        /\ res' = Outcome("createAsync", type, << >>, << >>, r.raised, r.val, NoVerdict)
    /\ UNCHANGED << browser, twin, pending, pk, proof, earlier >>

\* await sk.initializeAsync() on the EC secret key held
InitializeAsync ==
    /\ sk # Absent
    /\ sk.cls = "ECSecretKey"
    /\ \E g \in GeneratedECKeys :
        LET r == ECSecretKey_initializeAsync(sk, << >>, g)
        IN  /\ sk' = IF r.raised THEN sk ELSE r.val
            /\ res' = Outcome("initializeAsync", sk.type, << >>, << >>,
                              r.raised, r.val, NoVerdict)
    /\ UNCHANGED << browser, twin, pending, pk, proof, earlier >>

NextObj ==
    \/ \E type \in VRFType : Create(type)
    \/ \E type \in VRFType : CreateAsync(type)
    \/ InitializeAsync
    \/ NewEmpty
    \/ GetPublicKey
    \/ \E input \in Inputs : GetVRFProof(input)
    \/ ProofFromBytesOnHeld
    \/ PublicKeyFromBytesOnHeld

SpecObj == Init /\ [][NextObj]_vars

(***************************************************************************)
(* Clone runs: the caller clones the objects it was given.                 *)
(***************************************************************************)
\* twin = x.clone() where x is the secret key, public key or proof held
Clone ==
    /\ \E which \in { "secretKey", "publicKey", "proof" } :
        LET x == CASE which = "secretKey" -> sk
                   [] which = "publicKey" -> pk
                   [] which = "proof" -> proof
        IN  /\ x # Absent
            /\ \E r \in Object_clone(x) :
                /\ twin' = IF r.raised THEN twin ELSE r.val
                /\ res' = Outcome(which \o ".clone", x.type, << >>, << >>,
                                  r.raised, r.val, NoVerdict)
    /\ UNCHANGED << browser, pending, sk, pk, proof, earlier >>

NextClone ==
    \/ \E type \in VRFType : Create(type)
    \/ \E type \in VRFType : CreateAsync(type)
    \/ NewEmpty
    \/ GetPublicKey
    \/ \E input \in Inputs : GetVRFProof(input)
    \/ Clone

SpecClone == Init /\ [][NextClone]_vars

(***************************************************************************)
(* Conversion runs: hexToBytes or bytesToHex applied to an array or a      *)
(* string a caller writes down, then each to the result of the other.      *)
(***************************************************************************)
\* The bound on the length of the byte arrays converted.
MaxBytes == 2

ByteSamples == { 0, 1, 15, 16, 64, 128, 171, 255 }

ByteArrays ==
    UNION { [1 .. n -> ByteSamples] : n \in 0 .. MaxBytes }

CharSamples == { "0", "a", "f", "7", "A", "g" }

HexStrings ==
    UNION { [1 .. n -> CharSamples] : n \in 0 .. (2 * MaxBytes) }

HexOutcome(op, arg, r) ==
    [op |-> op, type |-> "UNKNOWN", input |-> arg, data |-> << >>,
     raised |-> r.raised, absent |-> FALSE,
     ok |-> ~r.raised, value |-> IF r.raised THEN << >> ELSE r.val, crypto |-> FALSE]

\* hex = bytesToHex(bytes)
BytesToHex ==
    /\ \/ /\ res.op = "none"
          /\ \E bytes \in ByteArrays :
            /\ res' = HexOutcome("bytesToHex", bytes, Returned(bytesToHex(bytes)))
            /\ earlier' = NoOutcome
       \/ /\ res.op = "hexToBytes"
          /\ ~res.raised
          /\ res' = HexOutcome("bytesToHex", res.value, Returned(bytesToHex(res.value)))
          /\ earlier' = res
    /\ UNCHANGED << browser, twin, pending, sk, pk, proof >>

\* bytes = hexToBytes(hex)
HexToBytes ==
    /\ \/ /\ res.op = "none"
          /\ \E hex \in HexStrings :
            /\ res' = HexOutcome("hexToBytes", hex, hexToBytes(hex))
            /\ earlier' = NoOutcome
       \/ /\ res.op = "bytesToHex"
          /\ res' = HexOutcome("hexToBytes", res.value, hexToBytes(res.value))
          /\ earlier' = res
    /\ UNCHANGED << browser, twin, pending, sk, pk, proof >>

NextHex ==
    \/ BytesToHex
    \/ HexToBytes

SpecHex == Init /\ [][NextHex]_vars

(***************************************************************************)
(* Runs of the PSS encoding on its own: pssEncode and pssVerify applied to *)
(* message hashes and encoded messages, with isBrowser() false.  At the    *)
(* registry's scale the padding PS is empty; the source's 2048-bit modulus *)
(* with SHA-256 leaves 222 bytes of it, so the runs also take a modulus up *)
(* to MaxPad bytes longer.                                                 *)
(***************************************************************************)
MaxPad == 1

PssType == "RSA_PSS_NOSALT_VRF_RSA2048_SHA256"

\* The message hashes rsaPSSProve and rsaPSSVerify compute for the inputs.
PssHashes ==
    LET params == getRSAVRFParams(PssType)
    IN  { hash(params.digest, concatBytes(params.suiteString, input)) : input \in Inputs }

\* The parameters of PssType with a modulus of pad more bytes.
PssParams(pad) ==
    LET params == getRSAVRFParams(PssType)
    IN  [params EXCEPT !.bits = params.bits + BitsPerByte * pad]

\* The parameters whose modulus has as many bytes as em.
PssParamsFor(em) ==
    PssParams(Len(em) - getRSAVRFParams(PssType).bits \div BitsPerByte)

PssOutcome(op, mHash, em, ok, value) ==
    [op |-> op, type |-> PssType, input |-> mHash, data |-> em,
     raised |-> FALSE, absent |-> FALSE,
     ok |-> ok, value |-> value, crypto |-> FALSE]

\* EM = this.pssEncode(hashedInput, params.bits, params)
PssEncode ==
    /\ res.op = "none"
    /\ \E pad \in 0 .. MaxPad, mHash \in PssHashes :
        res' = PssOutcome("pssEncode", mHash, << >>, TRUE,
                          pssEncode(mHash, PssParams(pad).bits, PssParams(pad)))
    /\ earlier' = NoOutcome
    /\ UNCHANGED << browser, twin, pending, sk, pk, proof >>

\* this.pssVerify(mHash, em, params.bits, params), on any em of the modulus
\* length or on the one pssEncode has just returned
PssVerify ==
    /\ \/ /\ res.op = "none"
          /\ \E pad \in 0 .. MaxPad, mHash \in PssHashes :
                \E em \in [1 .. PssParams(pad).bits \div BitsPerByte -> Bytes] :
                    res' = PssOutcome("pssVerify", mHash, em,
                               pssVerify(mHash, em, PssParams(pad).bits, PssParams(pad)),
                               << >>)
          /\ earlier' = NoOutcome
       \/ /\ res.op = "pssEncode"
          /\ res' = PssOutcome("pssVerify", res.input, res.value,
                        pssVerify(res.input, res.value, PssParamsFor(res.value).bits,
                                  PssParamsFor(res.value)),
                        << >>)
          /\ earlier' = res
    /\ UNCHANGED << browser, twin, pending, sk, pk, proof >>

NextPss ==
    \/ PssEncode
    \/ PssVerify

SpecPss == InitNode /\ [][NextPss]_vars

(***************************************************************************)
(* Runs of modular exponentiation on its own: each copy of modPow applied  *)
(* to a base, an exponent and a modulus up to MaxOperand.                  *)
(***************************************************************************)
MaxOperand == 6

PowOutcome(op, base, exp, modulus, result) ==
    [op |-> op, type |-> "UNKNOWN", input |-> << base, exp, modulus >>, data |-> << >>,
     raised |-> FALSE, absent |-> FALSE,
     ok |-> TRUE, value |-> << result >>, crypto |-> FALSE]

\* modPow(base, exp, mod) of the RSA engine
ModPow ==
    /\ \E base \in 0 .. MaxOperand, exp \in 0 .. MaxOperand, mod \in 1 .. MaxOperand :
        res' = PowOutcome("modPow", base, exp, mod, modPow(base, exp, mod))
    /\ earlier' = NoOutcome
    /\ UNCHANGED << browser, twin, pending, sk, pk, proof >>

\* modPow(base, exp, modulus) of utils
UtilsModPow ==
    /\ \E base \in 0 .. MaxOperand, exp \in 0 .. MaxOperand, modulus \in 1 .. MaxOperand :
        res' = PowOutcome("utils.modPow", base, exp, modulus,
                          utils_modPow(base, exp, modulus))
    /\ earlier' = NoOutcome
    /\ UNCHANGED << browser, twin, pending, sk, pk, proof >>

NextPow ==
    \/ ModPow
    \/ UtilsModPow

SpecPow == Init /\ [][NextPow]_vars

(***************************************************************************)
(* Runs of the fixed-width conversions on their own: i2osp and             *)
(* bigIntToBytes of utils and bigIntToBytes of the RSA engine applied to   *)
(* an integer and a length up to MaxLength.                                *)
(***************************************************************************)
MaxLength == 2

\* Integers around the powers of a byte, at the scale of utils.
IntSamples == { 0, 1, 15, 16, 255, 256, 4095, 4096, 65535, 65536, 1048576 }

\* Integers at the scale of the RSA engine's bytes.
EngineInts == 0 .. (Pow(ByteMod, MaxLength) + ByteMod)

ConvOutcome(op, value, length, r) ==
    [op |-> op, type |-> "UNKNOWN", input |-> << value, length >>, data |-> << >>,
     raised |-> r.raised, absent |-> FALSE,
     ok |-> ~r.raised, value |-> IF r.raised THEN << >> ELSE r.val, crypto |-> FALSE]

\* i2osp(x, xLen) of utils
I2osp ==
    /\ \E x \in IntSamples, xLen \in 0 .. MaxLength :
        res' = ConvOutcome("i2osp", x, xLen, utils_i2osp(x, xLen))
    /\ earlier' = NoOutcome
    /\ UNCHANGED << browser, twin, pending, sk, pk, proof >>

\* bigIntToBytes(value, length) of utils
UtilsBigIntToBytes ==
    /\ \E value \in IntSamples, length \in 0 .. MaxLength :
        res' = ConvOutcome("utils.bigIntToBytes", value, length,
                           utils_bigIntToBytes(value, length))
    /\ earlier' = NoOutcome
    /\ UNCHANGED << browser, twin, pending, sk, pk, proof >>

\* bigIntToBytes(value, length) of the RSA engine
BigIntToBytes ==
    /\ \E value \in EngineInts, length \in 0 .. MaxLength :
        res' = ConvOutcome("bigIntToBytes", value, length,
                           Returned(bigIntToBytes(value, length)))
    /\ earlier' = NoOutcome
    /\ UNCHANGED << browser, twin, pending, sk, pk, proof >>

NextConv ==
    \/ I2osp
    \/ UtilsBigIntToBytes
    \/ BigIntToBytes

SpecConv == Init /\ [][NextConv]_vars

(***************************************************************************)
(* Runs of the asynchronous EC interface: keys from createAsync and        *)
(* initializeAsync, empty objects, imported proofs, and the awaited        *)
(* getPublicKeyAsync, getVRFProofAsync and verifyVRFProofAsync, one call   *)
(* at a time.                                                              *)
(***************************************************************************)
\* pk = await sk.getPublicKeyAsync()
GetPublicKeyAsync ==
    /\ sk # Absent
    /\ sk.cls = "ECSecretKey"
    /\ LET r == ECSecretKey_getPublicKeyAsync(sk)
       IN  /\ pk' = r.val
           /\ res' = Outcome("getPublicKeyAsync", sk.type, << >>,
                             IF r.val = Absent THEN << >> ELSE PublicKey_toBytes(r.val),
                             FALSE, r.val, NoVerdict)
    /\ UNCHANGED << browser, twin, pending, sk, proof, earlier >>

\* proof = await sk.getVRFProofAsync(input)
GetVRFProofAsync(input) ==
    /\ sk # Absent
    /\ sk.cls = "ECSecretKey"
    /\ LET r == ECSecretKey_getVRFProofAsync(sk, input)
       IN  /\ proof' = r.val
           /\ res' = Outcome("getVRFProofAsync", sk.type, input,
                             IF r.val = Absent THEN << >> ELSE Proof_toBytes(r.val),
                             FALSE, r.val, NoVerdict)
    /\ UNCHANGED << browser, twin, pending, sk, pk, earlier >>

\* [ok, value] = await pk.verifyVRFProofAsync(input, proof)
VerifyVRFProofAsync(input) ==
    /\ pk # Absent
    /\ pk.cls = "ECPublicKey"
    /\ proof # Absent
    /\ res' = Outcome("verifyVRFProofAsync", pk.type, input, << >>, FALSE, pk,
                      ECPublicKey_verifyVRFProofAsync(pk, input, proof))
    /\ UNCHANGED << browser, twin, pending, sk, pk, proof, earlier >>

NextAsync ==
    \/ CreateAsync("EC_VRF_P256_SHA256_TAI")
    \/ NewEmpty
    \/ InitializeAsync
    \/ GetPublicKeyAsync
    \/ \E input \in Inputs : GetVRFProofAsync(input)
    \/ \E data \in ForeignBytes : ProofFromBytes("EC_VRF_P256_SHA256_TAI", data)
    \/ \E input \in Inputs : VerifyVRFProofAsync(input)

SpecAsync == Init /\ [][NextAsync]_vars

(***************************************************************************)
(* Runs in which initializeAsync is followed await by await, with          *)
(* isBrowser() false.  A call runs to its first await, where the NodeECDH  *)
(* of createECDHAsync exists with keys of its own; on resumption it is     *)
(* assigned to this.ecdh and, when key bytes were given, setPrivateKey     *)
(* runs on it up to the second await; the last resumption assigns          *)
(* privateKeyBytes and sets initialized.  Other calls on the key run       *)
(* between the resumptions.  getVRFProofAsync reads the key's fields       *)
(* before its only await and getPublicKeyAsync has none, so each is one    *)
(* step.                                                                   *)
(***************************************************************************)
MaxCalls == 2

\* The key bytes a caller passes to initializeAsync: none, or a private key.
SecretKeyArguments == GeneratedECKeys \cup { << >> }

\* The sequence s without its i-th element.
RemoveAt(s, i) == SubSeq(s, 1, i - 1) \o SubSeq(s, i + 1, Len(s))

\* sk = new ECSecretKey(type)
NewECSecretKey ==
    /\ sk = Absent
    /\ sk' = ECSecretKeyObj("EC_VRF_P256_SHA256_TAI", NoECDH, << >>, FALSE)
    /\ res' = Outcome("new", sk'.type, << >>, << >>, FALSE, sk', NoVerdict)
    /\ UNCHANGED << browser, twin, pending, pk, proof, earlier >>

\* sk.initializeAsync(secretKey), up to `await createECDHAsync(...)`
InitializeAsyncCall ==
    /\ sk # Absent
    /\ sk.cls = "ECSecretKey"
    /\ Len(pending) < MaxCalls
    /\ \E secretKey \in SecretKeyArguments, generated \in GeneratedECKeys :
        IF getECVRFParams(sk.type) = NoParams
        THEN /\ res' = Outcome("initializeAsync", sk.type, << >>, secretKey,
                               TRUE, Absent, NoVerdict)
             /\ UNCHANGED pending
        ELSE /\ res' = Outcome("initializeAsync", sk.type, << >>, secretKey,
                               FALSE, sk, NoVerdict)
             /\ pending' = Append(pending,
                               [at |-> "createECDHAsync", secretKey |-> secretKey,
                                ecdh |-> [present |-> TRUE, priv |-> generated]])
    /\ UNCHANGED << browser, twin, sk, pk, proof, earlier >>

\* A suspended initializeAsync runs on, to its next await or to its end.
InitializeAsyncResume ==
    /\ \E i \in 1 .. Len(pending) :
        LET call == pending[i]
        IN  IF call.at = "createECDHAsync"
            THEN IF Len(call.secretKey) > 0
                 THEN /\ sk' = [sk EXCEPT !.ecdh = [present |-> TRUE,
                                                    priv |-> call.secretKey]]
                      /\ pending' = [pending EXCEPT ![i].at = "setPrivateKey"]
                 ELSE /\ sk' = [sk EXCEPT !.ecdh = call.ecdh,
                                          !.privateKeyBytes = call.ecdh.priv,
                                          !.initialized = TRUE]
                      /\ pending' = RemoveAt(pending, i)
            ELSE /\ sk' = [sk EXCEPT !.privateKeyBytes = call.secretKey,
                                     !.initialized = TRUE]
                 /\ pending' = RemoveAt(pending, i)
    /\ res' = Outcome("initializeAsync", sk.type, << >>, << >>, FALSE, sk', NoVerdict)
    /\ UNCHANGED << browser, twin, pk, proof, earlier >>

NextInterleaved ==
    \/ NewECSecretKey
    \/ CreateAsync("EC_VRF_P256_SHA256_TAI")
    \/ InitializeAsyncCall
    \/ InitializeAsyncResume
    \/ GetPublicKeyAsync
    \/ \E input \in Inputs : GetVRFProofAsync(input)
    \/ \E input \in Inputs : GetVRFProof(input)

SpecInterleaved == InitNode /\ [][NextInterleaved]_vars

(***************************************************************************)
(* Runs in which a verifier imports the exported bytes of a public key     *)
(* under a type of its own choosing, which need not be the type the key    *)
(* was made for, and verifies proofs with what publicKeyFromBytes returned.*)
(***************************************************************************)
\* pk = VRF.publicKeyFromBytes(type, pk.toBytes()) for any type
ImportUnderType(type) ==
    /\ pk # Absent
    /\ PublicKeyFromBytes(type, PublicKey_toBytes(pk))

NextImport ==
    \/ \E type \in VRFType : Create(type)
    \/ GetPublicKey
    \/ \E type \in VRFType : ImportUnderType(type)
    \/ \E input \in Inputs : GetVRFProof(input)
    \/ \E input \in Inputs : VerifyVRFProof(input)

SpecImport == Init /\ [][NextImport]_vars

(***************************************************************************)
(* The properties.                                                         *)
(***************************************************************************)
\* The key pair is the one create(type) and getPublicKey() gave.
HoldsCreatedPair ==
    /\ sk # Absent
    /\ SecretKey_isInitialized(sk)
    /\ pk # Absent
    /\ pk = SecretKey_getPublicKey(sk).val

\* C1: for every supported type, every secret key sk that create(type)
\* returned and every input x, verifying sk.getVRFProof(x) under
\* sk.getPublicKey() returns (true, v) with v non-empty, and for the RSA
\* types v is the digest of the proof's bytes.
C1_VerificationCorrect ==
    ( /\ res.op = "verifyVRFProof"
      /\ HoldsCreatedPair
      /\ proof = SecretKey_getVRFProof(sk, res.input).val )
    => /\ res.ok
       /\ res.value # << >>
       /\ isRSAType(sk.type)
            => res.value = hash(getRSAVRFParams(sk.type).digest, Proof_toBytes(proof))

CandidateProofBytes(input) ==
    LET r == SecretKey_getVRFProof(sk, input)
    IN  IF sk = Absent \/ r.raised \/ r.val = Absent THEN { }
        ELSE { Proof_toBytes(r.val) } \cup Altered(Proof_toBytes(r.val), KnownModulus)

\* C3: the VRF output is unique per key and input: any two proofs built by
\* proofFromBytes that both verify under pk for x carry the same VRF value.
C3_UniqueOutput ==
    ( res.op = "verifyVRFProof" /\ res.ok )
    => \A data \in CandidateProofBytes(res.input) :
          LET other == VRF_proofFromBytes(pk.type, data)
              verdict == PublicKey_verifyVRFProof(pk, res.input, other)
          IN  ( other # Absent /\ verdict.ok ) => verdict.value = res.value

\* The proof held differs in one bit from the bytes of a proof that
\* verifies under pk for `input`.
OneBitFromValid(input) ==
    \E data \in SingleBitFlips(Proof_toBytes(proof)) :
        PublicKey_verifyVRFProof(pk, input, VRF_proofFromBytes(pk.type, data)).ok

\* C4: for the RSA types, a proof rebuilt by proofFromBytes from the bytes
\* of a verifying proof with one bit flipped is rejected with (false, empty)
\* under the same public key and input.
C4_TamperRejected ==
    ( /\ res.op = "verifyVRFProof"
      /\ isRSAType(pk.type)
      /\ proof.type = pk.type
      /\ OneBitFromValid(res.input) )
    => ~res.ok /\ res.value = << >>

C4_Witness ==
    /\ res.op = "verifyVRFProof"
    /\ isRSAType(pk.type)
    /\ proof.type = pk.type
    /\ OneBitFromValid(res.input)
    /\ ~res.ok

\* C5: for a public key derived from a created secret key and a proof that
\* key produced, publicKeyFromBytes(type, pk.toBytes()) and
\* proofFromBytes(type, p.toBytes()) are not absent and export the same bytes.
C5_RoundTrip ==
    /\ ( /\ res.op = "publicKeyFromBytes"
         /\ sk # Absent
         /\ SecretKey_isInitialized(sk)
         /\ res.type = sk.type
         /\ res.data = PublicKey_toBytes(SecretKey_getPublicKey(sk).val) )
       => ~res.absent /\ pk # Absent /\ PublicKey_toBytes(pk) = res.data
    /\ ( /\ res.op = "proofFromBytes"
         /\ sk # Absent
         /\ SecretKey_isInitialized(sk)
         /\ res.type = sk.type
         /\ \E input \in Inputs :
               res.data = Proof_toBytes(SecretKey_getVRFProof(sk, input).val) )
       => ~res.absent /\ proof # Absent /\ Proof_toBytes(proof) = res.data

C5_Witness ==
    /\ res.op = "publicKeyFromBytes"
    /\ sk # Absent
    /\ isECType(sk.type)
    /\ res.type = sk.type
    /\ proof # Absent
    /\ Proof_isInitialized(proof)
    /\ pk # Absent
    /\ pk # SecretKey_getPublicKey(sk).val
    /\ PublicKey_toBytes(pk) = PublicKey_toBytes(SecretKey_getPublicKey(sk).val)

\* C6: a proof whose type differs from the public key's is rejected with
\* (false, empty) for every input, whatever its bytes, and nothing is hashed
\* or exponentiated.
C6_TypeMismatch ==
    ( res.op = "verifyVRFProof" /\ proof.type # pk.type )
    => ~res.ok /\ res.value = << >> /\ ~res.crypto

C6_Witness ==
    /\ res.op = "verifyVRFProof"
    /\ proof.type # pk.type
    /\ PublicKey_isInitialized(pk)
    /\ Proof_isInitialized(proof)
    /\ isRSAType(pk.type)
    /\ isRSAType(proof.type)

\* C7: verifyVRFProof never raises; it returns (false, empty) or (true, v)
\* with v non-empty and equal to proof.getVRFValue().
C7_VerifyShape ==
    res.op = "verifyVRFProof"
    => /\ ~res.raised
       /\ \/ ~res.ok /\ res.value = << >>
          \/ /\ res.ok
             /\ res.value # << >>
             /\ ~Proof_getVRFValue(proof).raised
             /\ res.value = Proof_getVRFValue(proof).val

\* C7's cases: an acceptance, and a rejection by the arithmetic.
C7_Witness ==
    /\ res.op = "verifyVRFProof"
    /\ ~res.ok
    /\ res.crypto
    /\ \E input \in Inputs : PublicKey_verifyVRFProof(pk, input, proof).ok

\* C8: no public operation ever ends by raising, for any argument, object
\* state or hosting environment.
C8_NeverRaises == ~res.raised

\* C9: create(UNKNOWN) is absent; proofFromBytes and publicKeyFromBytes are
\* absent when the type is UNKNOWN and when the bytes are empty.
C9_UnknownOrEmptyAbsent ==
    /\ ( res.op = "create" /\ res.type = "UNKNOWN" ) => res.absent
    /\ ( /\ res.op \in { "proofFromBytes", "publicKeyFromBytes" }
         /\ ( res.type = "UNKNOWN" \/ res.data = << >> ) )
       => res.absent

\* The fixed proof length of a type: bits / 8 for RSA, fLen for EC.
ProofLength(type) ==
    IF isRSAType(type) THEN getRSAVRFParams(type).bits \div BitsPerByte
    ELSE IF isECType(type) THEN getECVRFParams(type).fLen
    ELSE 0

\* C10: a proof whose buffer has not the fixed length of its type never
\* verifies, under any public key of that type and for any input.
C10_WrongLengthRejected ==
    ( res.op = "verifyVRFProof" /\ Len(Proof_toBytes(proof)) # ProofLength(proof.type) )
    => ~res.ok /\ res.value = << >>


\* C11: whenever fromBytes(type, bytes) on a Proof or PublicKey object
\* returns false, the receiver reports isInitialized() = false afterwards,
\* whatever state it was in before the call.
C11_FailedImportUninitialized ==
    /\ (res.op = "proof.fromBytes" /\ ~res.ok) => ~Proof_isInitialized(proof)
    /\ (res.op = "publicKey.fromBytes" /\ ~res.ok) => ~PublicKey_isInitialized(pk)

\* C12: once a SecretKey, PublicKey or Proof reports isInitialized() = true,
\* no public operation on it (fromBytes, re-initialization) changes its
\* getType(), its toBytes() result or the proofs it produces.
C12_ImmutableOnceInitialized ==
    [][ /\ (res'.op = "proof.fromBytes" /\ Proof_isInitialized(proof))
           => (proof'.type = proof.type /\ Proof_toBytes(proof') = Proof_toBytes(proof))
        /\ (res'.op = "publicKey.fromBytes" /\ PublicKey_isInitialized(pk))
           => (pk'.type = pk.type /\ PublicKey_toBytes(pk') = PublicKey_toBytes(pk))
        /\ (res'.op = "initializeAsync" /\ SecretKey_isInitialized(sk))
           => (sk'.type = sk.type
               /\ \A input \in Inputs :
                    SecretKey_getVRFProof(sk', input) = SecretKey_getVRFProof(sk, input))
      ]_vars

\* C13: clone() of an initialized secret key, public key or proof returns an
\* initialized object with the same getType() and the same observable bytes
\* (equal toBytes(); for a secret key, the same proof for every input).
C13_CloneEqual ==
    /\ (res.op = "secretKey.clone" /\ SecretKey_isInitialized(sk))
       => /\ ~res.raised
          /\ SecretKey_isInitialized(twin)
          /\ twin.type = sk.type
          /\ \A input \in Inputs :
               SecretKey_getVRFProof(twin, input) = SecretKey_getVRFProof(sk, input)
    /\ (res.op = "publicKey.clone" /\ PublicKey_isInitialized(pk))
       => /\ ~res.raised
          /\ PublicKey_isInitialized(twin)
          /\ twin.type = pk.type
          /\ PublicKey_toBytes(twin) = PublicKey_toBytes(pk)
    /\ (res.op = "proof.clone" /\ Proof_isInitialized(proof))
       => /\ ~res.raised
          /\ Proof_isInitialized(twin)
          /\ twin.type = proof.type
          /\ Proof_toBytes(twin) = Proof_toBytes(proof)

\* C14: every proof returned by getVRFProof has the length fixed by its
\* type, whatever the input and the key: bits/8 bytes for an RSA type (the
\* integer left-padded with zeros), fLen bytes for the EC type.
C14_FixedProofLength ==
    (res.op = "getVRFProof" /\ ~res.raised /\ ~res.absent)
    => /\ Len(res.data) = ProofLength(res.type)
       /\ Proof_toBytes(proof) = res.data

\* An RSA proof whose integer is short: its first byte is the padding.
C14_Witness ==
    /\ res.op = "getVRFProof"
    /\ ~res.raised
    /\ ~res.absent
    /\ isRSAPSSType(res.type)
    /\ res.data[1] = 0

\* C15: the length of the EC proof buffer getVRFProof fills equals
\* ptLen + cLen + qLen of the registry's parameters for the EC type.
C15_ECProofLengthIsSum ==
    (res.op = "getVRFProof" /\ ~res.raised /\ ~res.absent /\ isECType(res.type))
    => Len(res.data) = getECVRFParams(res.type).ptLen
                       + getECVRFParams(res.type).cLen
                       + getECVRFParams(res.type).qLen

\* The value the claim C16 states for an initialized proof: the digest of the
\* proof bytes (RSA), the digest of suiteString, 0x03 and the first ptLen
\* proof bytes (EC).
StatedVRFValue(p) ==
    IF isRSAType(p.type)
    THEN hash(getRSAVRFParams(p.type).digest, Proof_toBytes(p))
    ELSE hash(getECVRFParams(p.type).digest,
              getECVRFParams(p.type).suiteString \o << 3 >>
              \o SubSeq(Proof_toBytes(p), 1,
                        Min(getECVRFParams(p.type).ptLen, Len(Proof_toBytes(p)))))

\* C16: the VRF value is a function of the proof bytes and the type alone:
\* getVRFValue() of an initialized proof is digest(proofBytes) for the RSA
\* types and digest(suiteString, 0x03, proof[0:ptLen]) for the EC type, and
\* an accepting verifyVRFProof returns that same value whatever the key.
C16_ValueFromProofBytes ==
    /\ (res.op = "getVRFValue" /\ Proof_isInitialized(proof))
       => (~res.raised /\ res.value = StatedVRFValue(proof))
    /\ (res.op = "verifyVRFProof" /\ res.ok /\ Proof_isInitialized(proof))
       => res.value = StatedVRFValue(proof)

\* The type predicates and the registry agree on the type t.
TypeClassified(t) ==
    /\ (t \in VRFType \ { "UNKNOWN" }) => (isRSAType(t) # isECType(t))
    /\ (t \notin VRFType \ { "UNKNOWN" }) => (~isRSAType(t) /\ ~isECType(t))
    /\ (getRSAVRFParams(t) # NoParams) <=> isRSAType(t)
    /\ (getECVRFParams(t) # NoParams) <=> isECType(t)

\* C17: isRSAType and isECType partition the nine concrete types (exactly one
\* of them holds), both are false for UNKNOWN and for a value outside the
\* enumeration, and getRSAVRFParams / getECVRFParams are non-absent exactly
\* where isRSAType / isECType hold.
C17_TypePartition ==
    /\ TypeClassified(res.type)
    /\ \A t \in VRFType \cup { "NOT_A_TYPE", "" } : TypeClassified(t)

\* A factory was called with UNKNOWN, and one with the EC type.
C17_Witness ==
    /\ res.op = "proofFromBytes"
    /\ res.type = "UNKNOWN"
    /\ res.absent
    /\ sk # Absent
    /\ isECType(sk.type)
    /\ ~isRSAType(sk.type)

\* What the factories and getPublicKey() have just returned is initialized
\* and has the requested type.
FactoryObjectsInitialized ==
    /\ (res.op \in { "create", "createAsync" } /\ ~res.raised /\ ~res.absent)
       => (SecretKey_isInitialized(sk) /\ sk.type = res.type)
    /\ (res.op = "proofFromBytes" /\ ~res.absent)
       => (Proof_isInitialized(proof) /\ proof.type = res.type)
    /\ (res.op = "publicKeyFromBytes" /\ ~res.absent)
       => (PublicKey_isInitialized(pk) /\ pk.type = res.type)
    /\ (res.op = "getPublicKey" /\ SecretKey_isInitialized(sk))
       => /\ ~res.raised
          /\ ~res.absent
          /\ PublicKey_isInitialized(pk)
          /\ pk.type = sk.type

\* sk.getPublicKey().toBytes(), or how the call failed
PublicKeyBytesOf(s) ==
    LET r == SecretKey_getPublicKey(s)
    IN  IF r.raised THEN "raised"
        ELSE IF r.val = Absent THEN "absent"
        ELSE PublicKey_toBytes(r.val)

\* C18: every non-absent object VRF.create, VRF.proofFromBytes or
\* VRF.publicKeyFromBytes returns is initialized and has the requested type;
\* and every call of getPublicKey() on a created secret key returns an
\* initialized public key of that type with the same toBytes(): no step
\* changes the bytes getPublicKey() gives for the key.
C18_FactoryObjectsInitialized ==
    [][ /\ FactoryObjectsInitialized'
        /\ SecretKey_isInitialized(sk)
           => PublicKeyBytesOf(sk') = PublicKeyBytesOf(sk)
      ]_vars


\* an even-length string of lowercase hex digits
IsLowerEvenHex(str) ==
    /\ Len(str) % 2 = 0
    /\ \A i \in 1 .. Len(str) : \E d \in 1 .. HexRadix : HexDigits[d] = str[i]

\* C19: hexToBytes(bytesToHex(b)) = b for every byte array b, the empty one
\* included; bytesToHex(hexToBytes(h)) = h for every even-length lowercase
\* hex string h; bytesToHex emits exactly two lowercase hex digits per byte.
C19_HexRoundTrip ==
    /\ (res.op = "hexToBytes" /\ earlier.op = "bytesToHex")
       => (~res.raised /\ res.value = earlier.input)
    /\ (res.op = "bytesToHex" /\ earlier.op = "hexToBytes"
           /\ IsLowerEvenHex(earlier.input))
       => res.value = earlier.input
    /\ res.op = "bytesToHex"
       => (Len(res.value) = 2 * Len(res.input) /\ IsLowerEvenHex(res.value))

\* An array with a byte below 16 went to hex and back.
C19_Witness ==
    /\ res.op = "hexToBytes"
    /\ earlier.op = "bytesToHex"
    /\ earlier.input = << 15, 255 >>
    /\ res.input = << "0", "f", "f", "f" >>


\* The public key held is the one the EC secret key held gave out: it
\* carries the key's private key bytes.
HoldsECPairWithPrivateBytes ==
    /\ sk # Absent
    /\ sk.cls = "ECSecretKey"
    /\ SecretKey_isInitialized(sk)
    /\ pk # Absent
    /\ pk = SecretKey_getPublicKey(sk).val
    /\ Len(pk.privateKeyBytes) > 0

\* C20: for an EC public key obtained from secretKey.getPublicKey(),
\* verifyVRFProof(x, p) returns true only if the bytes of p are exactly the
\* bytes of secretKey.getVRFProof(x); every other proof, a modified one or
\* one for another input, is rejected with (false, empty).
C20_FullVerificationExact ==
    (res.op = "verifyVRFProof" /\ HoldsECPairWithPrivateBytes
       /\ Proof_toBytes(proof) # Proof_toBytes(SecretKey_getVRFProof(sk, res.input).val))
    => (~res.ok /\ res.value = << >>)

\* A proof of the right type and length that is not the key's proof for the
\* input was verified, after the key's own proof for another input was.
C20_Witness ==
    /\ res.op = "verifyVRFProof"
    /\ HoldsECPairWithPrivateBytes
    /\ proof.type = pk.type
    /\ Len(Proof_toBytes(proof)) = ProofLength(pk.type)
    /\ Proof_toBytes(proof) # Proof_toBytes(SecretKey_getVRFProof(sk, res.input).val)
    /\ \E input \in Inputs : proof = SecretKey_getVRFProof(sk, input).val
    /\ ~res.ok


\* The public key held is an initialized EC key without private key bytes.
HoldsECPublicOnly ==
    /\ pk # Absent
    /\ pk.cls = "ECPublicKey"
    /\ PublicKey_isInitialized(pk)
    /\ Len(pk.privateKeyBytes) = 0

\* The proof held is an initialized EC proof of the declared length whose
\* bytes are not all zero.
WellFormedECProof ==
    /\ proof # Absent
    /\ proof.cls = "ECProof"
    /\ Proof_isInitialized(proof)
    /\ Len(Proof_toBytes(proof)) = getECVRFParams(proof.type).fLen
    /\ \E i \in 1 .. Len(Proof_toBytes(proof)) : Proof_toBytes(proof)[i] # 0

\* C21: for an EC public key that carries no private key bytes,
\* verifyVRFProof(x, p) returns true exactly when p is an initialized EC
\* proof of the declared length that is not all-zero, whatever the input
\* and the public key bytes.
C21_PublicOnlyVerification ==
    (res.op = "verifyVRFProof" /\ HoldsECPublicOnly)
    => (res.ok <=> WellFormedECProof)

\* The 4-byte big-endian encoding of a block counter.
BigEndian4(i) ==
    << (i \div (ByteMod * ByteMod * ByteMod)) % ByteMod,
       (i \div (ByteMod * ByteMod)) % ByteMod,
       (i \div ByteMod) % ByteMod,
       i % ByteMod >>

\* Block Ti of the stated expansion for a type and an input.
StatedBlock(type, input, i) ==
    LET params == getRSAVRFParams(type)
        seed == hash(params.digest, params.suiteString \o input)
        salt == hash(params.digest, params.suiteString)
    IN  hash(params.digest, seed \o salt \o BigEndian4(i))

\* T0 || T1 || ... || T(n-1)
RECURSIVE StatedBlocks(_, _, _)
StatedBlocks(type, input, n) ==
    IF n = 0 THEN << >>
    ELSE StatedBlocks(type, input, n - 1) \o StatedBlock(type, input, n - 1)

\* The first bits/8 bytes of T0 || T1 || ...
StatedFullDomain(type, input) ==
    LET params == getRSAVRFParams(type)
        len == params.bits \div BitsPerByte
        hLen == Len(StatedBlock(type, input, 0))
        n == (len + hLen - 1) \div hLen
    IN  SubSeq(StatedBlocks(type, input, n), 1, len)

\* C22: hashToFullDomain(input) returns exactly bits/8 bytes, the first
\* bits/8 bytes of T0 || T1 || ... with Ti = digest(seed || salt || 4-byte
\* big-endian counter i), the counter starting at 0, seed = digest(suiteString
\* || input) and salt = digest(suiteString); the last block is truncated, and
\* the secret-key side and the public-key side compute the same bytes.
C22_FullDomainExpansion ==
    /\ (res.op = "getVRFProof" /\ sk # Absent /\ sk.cls = "RSASecretKey"
            /\ SecretKey_isInitialized(sk))
       => LET em == RSASecretKey_hashToFullDomain(res.input,
                        getRSAVRFParams(sk.type), sk.mgf1Salt)
          IN  /\ Len(em) = getRSAVRFParams(sk.type).bits \div BitsPerByte
              /\ em = StatedFullDomain(sk.type, res.input)
    /\ (res.op = "verifyVRFProof" /\ pk # Absent /\ pk.cls = "RSAPublicKey"
            /\ PublicKey_isInitialized(pk))
       => LET em == RSAPublicKey_hashToFullDomain(res.input,
                        getRSAVRFParams(pk.type), pk.mgf1Salt)
          IN  /\ Len(em) = getRSAVRFParams(pk.type).bits \div BitsPerByte
              /\ em = StatedFullDomain(pk.type, res.input)
              /\ (sk # Absent /\ sk.cls = "RSASecretKey" /\ sk.type = pk.type
                      /\ SecretKey_isInitialized(sk))
                 => em = RSASecretKey_hashToFullDomain(res.input,
                             getRSAVRFParams(sk.type), sk.mgf1Salt)

\* A full-domain-hash proof has been made and accepted, and the expansion
\* needed a second block of which only a part was used.
C22_Witness ==
    /\ res.op = "verifyVRFProof"
    /\ res.ok
    /\ pk # Absent
    /\ pk.cls = "RSAPublicKey"
    /\ isRSAFDHType(pk.type)
    /\ sk # Absent
    /\ sk.cls = "RSASecretKey"
    /\ sk.type = pk.type
    /\ Len(res.input) > 0
    /\ LET hLen == Len(StatedBlock(pk.type, res.input, 0))
           len == getRSAVRFParams(pk.type).bits \div BitsPerByte
       IN  hLen < len /\ len < 2 * hLen

\* The number of significant bits of a non-negative integer.
RECURSIVE BitLength(_)
BitLength(v) == IF v = 0 THEN 0 ELSE 1 + BitLength(v \div 2)

\* The encoded message rsaPSSProve signs for the secret key and input given.
EncodedMessage(s, input) ==
    LET params == getRSAVRFParams(s.type)
        hashedInput == hash(params.digest, concatBytes(params.suiteString, input))
    IN  pssEncode(hashedInput, params.bits, params)

\* C23: in PSS-no-salt proof generation the encoded message EM has exactly
\* bits/8 bytes, ends with the trailer byte 0xbc, and its leading bits are
\* cleared so that EM, read as a big-endian integer, has at most (modulus bit
\* length - 1) significant bits and is smaller than the modulus n.
C23_EncodedMessageBelowModulus ==
    (res.op = "getVRFProof" /\ ~res.raised /\ ~res.absent
        /\ sk.cls = "RSASecretKey" /\ isRSAPSSType(sk.type))
    => LET EM == EncodedMessage(sk, res.input)
       IN  /\ Len(EM) = getRSAVRFParams(sk.type).bits \div BitsPerByte
           /\ EM[Len(EM)] = TrailerByte
           /\ BitLength(bufferToBigInt(EM)) <= BitLength(sk.rsaKey.n) - 1
           /\ bufferToBigInt(EM) < sk.rsaKey.n

\* The shape stated for an encoded message em that goes with the hash mHash.
StatedPssShape(mHash, em) ==
    LET params == PssParamsFor(em)
        hLen == Len(mHash)
        H == SubSeq(em, Len(em) - hLen, Len(em) - 1)
        maskedDB == SubSeq(em, 1, Len(em) - hLen - 1)
        dbMask == mgf1(H, Len(maskedDB), params)
        DB == [i \in 1 .. Len(maskedDB) |-> BitXor(maskedDB[i], dbMask[i])]
    IN  /\ em[Len(em)] = TrailerByte
        /\ \A i \in 1 .. Len(DB) - 1 : DB[i] = 0
        /\ DB[Len(DB)] = 1
        /\ H = hash(params.digest, Zeros(8) \o mHash)

\* C24: pssVerify(mHash, EM) returns true exactly when the last byte of EM is
\* 0xbc, the DB recovered as maskedDB xor MGF1(H) is zero bytes followed by
\* exactly one 0x01 byte in its last position, and H = digest(8 zero bytes ||
\* mHash); any other shape is rejected, and pssVerify accepts pssEncode(mHash)
\* for every mHash.
C24_PssVerifyExact ==
    (res.op = "pssVerify")
    => /\ res.ok <=> StatedPssShape(res.input, res.data)
       /\ (earlier.op = "pssEncode" /\ earlier.input = res.input
              /\ earlier.value = res.data) => res.ok

\* pssVerify has accepted what pssEncode returned for a modulus that leaves
\* room for padding bytes before the separator.
C24_Witness ==
    /\ res.op = "pssVerify"
    /\ res.ok
    /\ earlier.op = "pssEncode"
    /\ earlier.value = res.data
    /\ Len(res.data) > Len(res.input) + 2

\* C25: modPow(base, exp, modulus) returns base^exp mod modulus, a value in
\* [0, modulus), for every base >= 0, every exp >= 0 and every modulus >= 1
\* (exp = 0 and modulus = 1 included), and the copy in the RSA engine and the
\* copy in utils return the same result.
C25_ModPowExact ==
    (res.op \in { "modPow", "utils.modPow" })
    => LET base == res.input[1]
           exp == res.input[2]
           modulus == res.input[3]
       IN  /\ res.value[1] = Pow(base, exp) % modulus
           /\ res.value[1] \in 0 .. (modulus - 1)
           /\ modPow(base, exp, modulus) = utils_modPow(base, exp, modulus)

\* The integer the bytes of a conversion's result stand for: os2ip for the
\* conversions of utils, the engine's own reading for the engine's.
ReadBack(op, bytes) ==
    IF op = "bigIntToBytes" THEN Returned(bufferToBigInt(bytes))
    ELSE utils_os2ip(bytes)

\* The number of values of a byte in the conversion named.
ByteValues(op) == IF op = "bigIntToBytes" THEN ByteMod ELSE HexRadix * HexRadix

\* C26: every fixed-width integer-to-bytes conversion (i2osp and
\* bigIntToBytes in utils, bigIntToBytes in the RSA engine) returns exactly
\* the declared number of bytes, zero-padded on the left, with os2ip of the
\* result equal to the integer, when the integer is below 256^length; when
\* the integer is >= 256^length the conversion fails with an encoding error
\* instead of returning truncated or over-long bytes.
C26_FixedWidthConversions ==
    (res.op \in { "i2osp", "utils.bigIntToBytes", "bigIntToBytes" })
    => LET value == res.input[1]
           length == res.input[2]
       IN  IF value < Pow(ByteValues(res.op), length)
           THEN /\ ~res.raised
                /\ Len(res.value) = length
                /\ ~ReadBack(res.op, res.value).raised
                /\ ReadBack(res.op, res.value).val = value
           ELSE res.raised

\* C27: the asynchronous EC operations have the same semantics as the
\* synchronous ones: for every EC key state, input and proof,
\* getVRFProofAsync returns the same proof bytes (or the same absence) as
\* getVRFProof, getPublicKeyAsync the same key bytes as getPublicKey, and
\* verifyVRFProofAsync the same (bool, value) as verifyVRFProof, with the
\* same classification of failures.
C27_AsyncAsSync ==
    /\ res.op = "getVRFProofAsync"
       => LET r == ECSecretKey_getVRFProof(sk, res.input)
          IN  /\ ~r.raised
              /\ res.absent <=> (r.val = Absent)
              /\ ~res.absent => Proof_toBytes(r.val) = res.data
    /\ res.op = "getPublicKeyAsync"
       => LET r == ECSecretKey_getPublicKey(sk)
          IN  /\ ~r.raised
              /\ res.absent <=> (r.val = Absent)
              /\ ~res.absent => PublicKey_toBytes(r.val) = res.data
    /\ res.op = "verifyVRFProofAsync"
       => LET v == PublicKey_verifyVRFProof(pk, res.input, proof)
          IN  v.ok = res.ok /\ v.value = res.value

\* C28: under every interleaving of asynchronous operations on one
\* ECSecretKey (initializeAsync with or without key bytes, getVRFProofAsync,
\* getPublicKeyAsync, getVRFProof), in every state where the key reports
\* isInitialized() = true the public key returned by its EC capability is the
\* public key of its stored privateKeyBytes, so no proof or public key is
\* ever computed from a public key and a private key of different key pairs.
C28_OneKeyPair ==
    /\ (sk # Absent /\ sk.cls = "ECSecretKey" /\ ECSecretKey_isInitialized(sk))
       => ECPoint(sk.ecdh.priv) = ECPoint(sk.privateKeyBytes)
    /\ (res.op = "getPublicKeyAsync" /\ ~res.absent)
       => pk.publicKeyBytes = ECPoint(pk.privateKeyBytes)
    /\ (res.op \in { "getVRFProofAsync", "getVRFProof" } /\ ~res.raised /\ ~res.absent)
       => \E priv \in GeneratedECKeys :
            res.data = ECProofBytes(getECVRFParams(res.type), ECPoint(priv),
                                    res.input, priv)

\* C29: an ECPublicKey holds private key bytes only when they are the private
\* key matching its current public key bytes: after any successful
\* fromBytes(type, bytes) on an ECPublicKey, whatever its previous state (a
\* key from secretKey.getPublicKey() included), the object carries no private
\* key bytes, and so verifies in public-key-only mode.
C29_ImportedKeyIsPublicOnly ==
    /\ (res.op = "publicKey.fromBytes" /\ res.ok /\ pk.cls = "ECPublicKey")
       => Len(pk.privateKeyBytes) = 0
    /\ (pk # Absent /\ pk.cls = "ECPublicKey" /\ Len(pk.privateKeyBytes) > 0)
       => pk.publicKeyBytes = ECPoint(pk.privateKeyBytes)

\* C30: publicKeyFromBytes(type, bytes) for an RSA type returns a key only
\* when the encoded modulus has exactly the bit length declared for that type
\* in the registry; an encoding of an RSA key of any other size is rejected
\* as absent, so that every value s^e mod n computed during verification
\* fits in bits/8 bytes.
C30_ModulusOfDeclaredSize ==
    /\ (res.op = "publicKeyFromBytes" /\ isRSAType(res.type) /\ ~res.absent)
       => BitLength(DerImport(res.data).n) = getRSAVRFParams(res.type).bits
    /\ (pk # Absent /\ pk.cls = "RSAPublicKey" /\ PublicKey_isInitialized(pk))
       => LET modulusLength == getRSAVRFParams(pk.type).bits \div BitsPerByte
          IN  \A v \in { 0, pk.rsaKey.n - 1 } :
                bufferToBigInt(bigIntToBytes(v, modulusLength)) = v

=============================================================================
